---- MODULE Spec2Model ----
(***************************************************************************)
(* Model of the logger package of diting (the second, current design in    *)
(* src/scripts/biuld_rpm.sh, lines 415-959): the daily rotating file sink  *)
(* DailyFileHandler with its decorated wrappers and its retention sweep,   *)
(* the MultiHandler fan-out and derivation, the TerminalHandler, and the   *)
(* process-wide singleton InitLogger / GetLogger / Close; the command      *)
(* runner of src/pkg/executor/execute.go; the hardware Collector of        *)
(* src/unnamed/part_003 and collectNetInterfaces of src/unnamed/part_004.  *)
(***************************************************************************)
EXTENDS Integers, Sequences, FiniteSets, TLC

\* ---------------------------------------------------------------- bounds
NDays == 2          \* calendar days 1..NDays a record or the clock can name
MaxRecs == 2        \* records handled in one behaviour
MaxWrappers == 2    \* fileHandlerWrapper objects created in one behaviour

Threads == {1, 2}   \* goroutines calling into the package
Days == 1 .. NDays
Today == 1          \* the day NewFileHandler ran (time.Now() at line 651)

VARIABLES
  \* DailyFileHandler (lines 630-639)
  mu,           \* sync.Mutex: 0 free, else the goroutine holding it
  curDate,      \* 0 stands for the empty string
  curFile,      \* index into fds, 0 is nil
  curInner,     \* encoder bound to a file handle, NilInner is nil
  cleanTicker,  \* "nil" | "running" | "stopped"
  cleanDone,    \* "nil" | "open" | "closed"
  closeOnce,    \* sync.Once: "fresh" | "running" | "done"
  \* the operating system
  fds,          \* every *os.File ever opened: [day, ino, open, closes]
  disk,         \* inode contents: sequences of written entries
  dirent,       \* log directory: day -> inode of prefix-day.log, 0 if absent
  now,          \* wall-clock day (time.Now())
  \* decorated handlers
  wrappers,     \* fileHandlerWrapper objects: [inner, prev]
  \* goroutines
  pc, op,
  \* observation
  last,         \* what the step just taken completed
  nRecs,        \* records created so far
  chanCloses,   \* executions of close(h.cleanDone)
  panicked,
  \* package state (lines 462-467) and what InitLogger builds
  loggerOnce,       \* sync.Once: "fresh" | "running" | "done"
  onceLogger,       \* 0 is nil, else the id of a logger built by slog.New
  onceFileHandler,  \* FALSE is nil, TRUE points at the DailyFileHandler
  initErr,          \* "nil" or the error
  slogDefault,      \* slog.Default(): 0 the bare default, else a logger id
  loggers,          \* logger id -> its handler
  ifr,              \* locals of each goroutine's InitLogger call
  results,          \* every (logger, error) pair InitLogger has returned
  bodyRuns,         \* executions of the function passed to loggerOnce.Do
  sinksBuilt,       \* DailyFileHandler objects returned by NewFileHandler
  sweepers,         \* cleanOldLogsLoop goroutines started
  termsBuilt,       \* TerminalHandler objects built
  \* a MultiHandler over stub members and its Handle call in progress
  mhHandlers,   \* mh.handlers: [min, fails] per member
  mhLevel,      \* r.Level of the record being handled
  mhI,          \* loop position: 0 no call, else the next member's index
  mhErrs,       \* errs
  mhCalled,     \* members whose Handle was invoked, in order
  mhRes,        \* "none", or what the last call returned
  \* MultiHandler.WithAttrs / WithGroup call in progress (lines 614-628)
  mhNew,        \* handlers: the slice being filled, NoMember where still nil
  mhWI,         \* loop position: 0 no call, else the next index
  mhDerived,    \* the MultiHandler the last call returned: [made, kind, handlers]
  \* the retention sweep goroutine (lines 775-832)
  retain,       \* cfg.RetainDays
  swPc,         \* "none" | "clean" | "scan" | "select" | "exited"
  swList,       \* entries of the ReadDir listing still to examine
  swCut,        \* cutoff, in half days
  swFailed,     \* the os.Remove calls that failed: [pass, day]
  swSnap,       \* the directory as the last ReadDir saw it: day -> inode
  tickC,        \* ticks buffered in cleanTicker.C (capacity 1)
  others,       \* entries of the log directory that are not day files
  swPasses,     \* cleanOldLogs calls that have returned
  \* TerminalHandler (lines 869-959)
  terms,        \* TerminalHandler objects
  pool,         \* bufPool: the buffers it holds
  bufs,         \* every bytes.Buffer made by bufPool.New: its content
  tout,         \* the Write calls made on h.out, in order
  tfr,          \* locals of each goroutine's TerminalHandler.Handle call
  \* a LogConfig.validate call (lines 547-575)
  vin,          \* the configuration as the caller filled it
  vcfg,         \* *cfg, which validate writes to
  vret,         \* "none" before the call, else what validate returned
  \* the last MultiHandler.Enabled call (lines 585-592)
  mhEn,         \* [called, level, res]
  \* an ExecutorWithContext call (src/pkg/executor/execute.go, lines 60-85)
  xpc,          \* "idle" | "entered" | "running" | "panicked"
  xin,          \* the entry point used and the context the caller passed
  xctx,         \* ctx as the call holds it: [kind, timeout, state]
  xname,        \* name
  xret,         \* what the last call returned: [returned, out, err]
  \* the sink's configuration and the history of the singleton
  hLevel,       \* h.cfg.Level
  bodyVia,      \* who ran loggerOnce's function: "none" | "Init" | "Get"
  askedOutput,  \* cfg.Output of the latest InitLogger call
  \* a Collector and its Collect call (src/unnamed/part_003, lines 13-154)
  cpc,          \* "idle" | "wait" | "drain" | "returned"
  moduleSet,    \* the names Collect switched on (lines 39-49)
  gst,          \* per collector goroutine: "none" | "run" | "done"
  wg,           \* sync.WaitGroup counter
  errChan,      \* [buf, closed]: the buffered channel of lines 52 and 116
  info,         \* the HardwareInfo being filled
  lastData,     \* c.lastData, NilInfo is nil
  cacheSaved,   \* the argument of the latest c.cache.Save, NilInfo if none
  nSaves,       \* c.cache.Save calls made by the current Collect call
  cret,         \* what Collect returned: [returned, info, err]
  cfailed,      \* history: the collectors that failed in this call
  centry,       \* history: [lastData, cacheSaved] on entry
  \* a collectNetInterfaces call (src/unnamed/part_004, lines 13-34)
  sysNet,       \* /sys/class/net: the entries os.ReadDir yields, or ReadErr
  npc,          \* "idle" | "loop" | "returned"
  dirs,         \* dirs
  ni,           \* position of the range loop in dirs
  netInterfaces,\* netInterfaces
  nret          \* what the call returned: [returned, list, err]

hVars == <<curDate, curFile, curInner>>
fsVars == <<fds, disk, dirent>>
lifeVars == <<cleanTicker, cleanDone, closeOnce, chanCloses, panicked>>
sinkVars == <<mu, hVars, fsVars, lifeVars>>
initVars == <<loggerOnce, onceLogger, onceFileHandler, initErr, slogDefault,
              loggers, ifr, results, bodyRuns, sinksBuilt, sweepers, termsBuilt>>
multiVars == <<mhHandlers, mhLevel, mhI, mhErrs, mhCalled, mhRes>>
deriveVars == <<mhNew, mhWI, mhDerived>>
sweepVars == <<retain, swPc, swList, swCut, swFailed, swSnap, tickC, others,
              swPasses>>
termVars == <<terms, pool, bufs, tout, tfr>>
validateVars == <<vin, vcfg, vret>>
execVars == <<xpc, xin, xctx, xname, xret>>
collVars == <<cpc, moduleSet, gst, wg, errChan, info, lastData, cacheSaved,
              nSaves, cret, cfailed, centry>>
netVars == <<sysNet, npc, dirs, ni, netInterfaces, nret>>
hwVars == <<collVars, netVars>>
pureVars == <<validateVars, mhEn, execVars, hwVars>>
histVars == <<bodyVia, askedOutput>>
callVars == <<pureVars, hLevel, histVars>>
restVars == <<deriveVars, sweepVars, termVars, callVars>>

vars == <<sinkVars, now, wrappers, pc, op, last, nRecs, initVars, multiVars,
          restVars>>

\* slog.LevelInfo, LevelWarn, LevelError
LevelInfo == 0
LevelWarn == 4
LevelError == 8

\* ------------------------------------------------------------- encoders
\* slog.NewTextHandler / NewJSONHandler over a file (lines 760-766): the
\* handler keeps the writer it was built on and the attributes and groups
\* bound so far (bound counts them).
NilInner == [file |-> 0, bound |-> 0]
NewInner(fd) == [file |-> fd, bound |-> 0]
\* slog's WithAttrs / WithGroup on a text or JSON handler: same writer, one
\* more bound element.
InnerWith(e) == [file |-> e.file, bound |-> e.bound + 1]

IdleOp == [kind |-> "none", day |-> 0, rec |-> 0, w |-> 0]
\* last: the call the step just taken completed (kind "none" when the step
\* completed no call): the record's day and id, the result, the wrapper it
\* went through and the day of that wrapper's preceding successful Handle,
\* and for Close whether this call ran the Once's function
NoCall == [kind |-> "none", day |-> 0, rec |-> 0, res |-> "none",
           w |-> 0, prev |-> 0, first |-> FALSE, logger |-> 0]
Done(k, d, r, res, w, prev, first) ==
  [kind |-> k, day |-> d, rec |-> r, res |-> res, w |-> w,
   prev |-> prev, first |-> first, logger |-> 0]
\* a completed InitLogger / GetLogger call: the error or the kind of logger
\* returned, the logger's id, and whether the call ran the Once's function
Returned(k, res, lg, first) ==
  [NoCall EXCEPT !.kind = k, !.res = res, !.logger = lg, !.first = first]

Entry(o, e) == [rec |-> o.rec, day |-> o.day, bound |-> e.bound]

\* ------------------------------------------------------------ os.File
\* (*os.File).Close: the handle is closed whatever Close reports.
CloseFd(f, fd) ==
  [f EXCEPT ![fd] = [@ EXCEPT !.open = FALSE, !.closes = @ + 1]]

\* the open with O_TRUNC in place of O_APPEND: an existing file is emptied
OpenFileTrunc(d) ==
  /\ fds' = Append(fds, [day |-> d,
                          ino |-> IF dirent[d] # 0 THEN dirent[d] ELSE Len(disk) + 1,
                          open |-> TRUE, closes |-> 0])
  /\ disk' = IF dirent[d] # 0 THEN [disk EXCEPT ![dirent[d]] = <<>>]
                              ELSE Append(disk, <<>>)
  /\ dirent' = [dirent EXCEPT ![d] = IF @ # 0 THEN @ ELSE Len(disk) + 1]

\* os.OpenFile(path, O_CREATE|O_WRONLY|O_APPEND) succeeding (line 750): the
\* directory entry is created when absent, an existing file keeps its content.
OpenIno(d) == IF dirent[d] # 0 THEN dirent[d] ELSE Len(disk) + 1
OpenFile(d) ==
  /\ fds' = Append(fds, [day |-> d, ino |-> OpenIno(d), open |-> TRUE, closes |-> 0])
  /\ disk' = IF dirent[d] # 0 THEN disk ELSE Append(disk, <<>>)
  /\ dirent' = [dirent EXCEPT ![d] = OpenIno(d)]

\* A text/JSON handler writing one record to its writer: a closed *os.File
\* refuses the write (os.ErrClosed); an open one appends or reports an I/O
\* error.  Gives the possible (result, disk) pairs.
WriteOutcomes(e, o) ==
  IF ~fds[e.file].open
    THEN {[res |-> "err_closed", disk |-> disk]}
    ELSE {[res |-> "ok",
           disk |-> [disk EXCEPT ![fds[e.file].ino] = Append(@, Entry(o, e))]],
          [res |-> "err_io", disk |-> disk]}

\* ------------------------------------------------- DailyFileHandler.Handle
\* the date rotateIfNeeded compares: t.Format("2006-01-02") of r.Time
RotateDateWallClock(t) == now
RotateDate(t) == op[t].day

\* Handle, lines 666-668: h.mu.Lock()
HandleLock(t, d) ==
  /\ pc[t] = "idle" /\ mu = 0
  /\ nRecs < MaxRecs
  /\ mu' = t
  /\ nRecs' = nRecs + 1
  /\ op' = [op EXCEPT ![t] = [kind |-> "Handle", day |-> d, rec |-> nRecs + 1, w |-> 0]]
  /\ pc' = [pc EXCEPT ![t] = "rotate"]
  /\ last' = NoCall
  /\ UNCHANGED <<hVars, fsVars, lifeVars, now, wrappers, initVars, multiVars, restVars>>

\* a thread entering the section without the mutex
WrapperHandleNoLock(t, w, d) ==
  /\ pc[t] = "idle"
  /\ w \in 1 .. Len(wrappers)
  /\ nRecs < MaxRecs
  /\ nRecs' = nRecs + 1
  /\ op' = [op EXCEPT ![t] = [kind |-> "WHandle", day |-> d, rec |-> nRecs + 1, w |-> w]]
  /\ pc' = [pc EXCEPT ![t] = "rotate"]
  /\ last' = NoCall
  /\ UNCHANGED <<mu, hVars, fsVars, lifeVars, now, wrappers, initVars, multiVars, restVars>>

\* fileHandlerWrapper.Handle, lines 844-846: w.original.mu.Lock()
WrapperHandleLock(t, w, d) ==
  /\ pc[t] = "idle" /\ mu = 0
  /\ w \in 1 .. Len(wrappers)
  /\ nRecs < MaxRecs
  /\ mu' = t
  /\ nRecs' = nRecs + 1
  /\ op' = [op EXCEPT ![t] = [kind |-> "WHandle", day |-> d, rec |-> nRecs + 1, w |-> w]]
  /\ pc' = [pc EXCEPT ![t] = "rotate"]
  /\ last' = NoCall
  /\ UNCHANGED <<hVars, fsVars, lifeVars, now, wrappers, initVars, multiVars, restVars>>

\* the handlers of the logger slog.Default() returns; none for slog's own
\* bare default
DefaultHandlers ==
  IF slogDefault = 0 THEN {}
  ELSE {loggers[slogDefault].handlers[k] : k \in DOMAIN loggers[slogDefault].handlers}

\* a package-level slog.Warn passes its record to this sink's Handle: the
\* default logger is one InitLogger installed (line 510) over the file
\* handler, alone or first in a MultiHandler (lines 597-602), and the sink's
\* Enabled (line 663) accepts LevelWarn
WarnReachesSink == "file" \in DefaultHandlers /\ hLevel <= LevelWarn

\* rotateIfNeeded closing and reopening on every call, the same-day test
\* left out
RotateIfNeededCloseAlways(t) ==
  /\ pc[t] = "rotate"
  /\ IF curFile # 0
       THEN /\ fds' = CloseFd(fds, curFile)
            /\ \/ /\ curFile' = 0
                  /\ pc' = [pc EXCEPT ![t] = "clear"]
               \/ /\ pc' = [pc EXCEPT ![t] = "warn"]
                  /\ UNCHANGED curFile
       ELSE /\ pc' = [pc EXCEPT ![t] = "open"]
            /\ UNCHANGED <<curFile, fds>>
  /\ last' = NoCall
  /\ UNCHANGED <<mu, curDate, curInner, disk, dirent, lifeVars, now, wrappers,
                 op, nRecs, initVars, multiVars, restVars>>

\* rotateIfNeeded, lines 731-739: the same-day test, then closing the old
\* file; the handle is closed whatever Close reports, and when it reports
\* an error slog.Warn is called (line 740) before the fields are cleared
RotateIfNeededClose(t) ==
  /\ pc[t] = "rotate"
  /\ IF RotateDate(t) = curDate /\ curInner # NilInner
       THEN /\ pc' = [pc EXCEPT ![t] = "write"]
            /\ UNCHANGED <<curFile, fds>>
       ELSE IF curFile # 0
         THEN /\ fds' = CloseFd(fds, curFile)
              /\ \/ /\ curFile' = 0
                    /\ pc' = [pc EXCEPT ![t] = "clear"]
                 \/ /\ pc' = [pc EXCEPT ![t] = "warn"]
                    /\ UNCHANGED curFile
         ELSE /\ pc' = [pc EXCEPT ![t] = "open"]
              /\ UNCHANGED <<curFile, fds>>
  /\ last' = NoCall
  /\ UNCHANGED <<mu, curDate, curInner, disk, dirent, lifeVars, now, wrappers,
                 op, nRecs, initVars, multiVars, restVars>>

\* rotateIfNeeded, lines 740-742: slog.Warn returning.  It returns at once
\* when the default logger does not pass the record to this sink; when it
\* does, DailyFileHandler.Handle is entered by the same goroutine and its
\* h.mu.Lock() (line 667) has to get the mutex first, which the caller of
\* rotateIfNeeded holds (lines 667, 845).  The nested record itself is not
\* followed.
SlogWarn(t) ==
  /\ pc[t] = "warn"
  /\ WarnReachesSink => mu = 0
  /\ curFile' = 0
  /\ pc' = [pc EXCEPT ![t] = "clear"]
  /\ last' = NoCall
  /\ UNCHANGED <<mu, curDate, curInner, fsVars, lifeVars, now, wrappers, op,
                 nRecs, initVars, multiVars, restVars>>

\* Handle and the wrapper's Handle returning res: the deferred Unlock runs
\* (lines 668, 846) and the caller gets the result
HandleReturn(t, res) ==
  /\ mu' = IF mu = t THEN 0 ELSE mu
  /\ pc' = [pc EXCEPT ![t] = "idle"]
  /\ op' = [op EXCEPT ![t] = IdleOp]
  /\ last' = Done(op[t].kind, op[t].day, op[t].rec, res, op[t].w,
                  IF op[t].w = 0 THEN 0 ELSE wrappers[op[t].w].prev, FALSE)
  /\ wrappers' = IF op[t].w = 0 THEN wrappers
                 ELSE [wrappers EXCEPT ![op[t].w].prev =
                         IF res = "ok" THEN op[t].day ELSE 0]

\* the failed open returning with the old encoder still in place
RotateIfNeededOpenKeepInner(t) ==
  /\ pc[t] \in {"clear", "open"}
  /\ \/ /\ OpenFile(RotateDate(t))
        /\ curDate' = RotateDate(t)
        /\ curFile' = Len(fds) + 1
        /\ curInner' = NewInner(Len(fds) + 1)
        /\ pc' = [pc EXCEPT ![t] = "write"]
        /\ last' = NoCall
        /\ UNCHANGED <<mu, op, wrappers>>
     \/ /\ HandleReturn(t, "err_open")
        /\ UNCHANGED <<curDate, curFile, curInner, fsVars>>
  /\ UNCHANGED <<lifeVars, now, nRecs, initVars, multiVars, restVars>>

\* rotateIfNeeded, lines 743-772: curInner = nil after the close, then the
\* new day's file is opened and the three fields are set together
RotateIfNeededOpen(t) ==
  /\ pc[t] \in {"clear", "open"}
  /\ \/ /\ OpenFile(RotateDate(t))
        /\ curDate' = RotateDate(t)
        /\ curFile' = Len(fds) + 1
        /\ curInner' = NewInner(Len(fds) + 1)
        /\ pc' = [pc EXCEPT ![t] = "write"]
        /\ last' = NoCall
        /\ UNCHANGED <<mu, op, wrappers>>
     \/ /\ curInner' = IF pc[t] = "clear" THEN NilInner ELSE curInner
        /\ HandleReturn(t, "err_open")
        /\ UNCHANGED <<curDate, curFile, fsVars>>
  /\ UNCHANGED <<lifeVars, now, nRecs, initVars, multiVars, restVars>>

\* Handle, lines 674-678
HandleWrite(t) ==
  /\ pc[t] = "write" /\ op[t].kind = "Handle"
  /\ IF curInner = NilInner
       THEN /\ HandleReturn(t, "err_uninit")
            /\ UNCHANGED disk
       ELSE \E o \in WriteOutcomes(curInner, op[t]) :
            /\ disk' = o.disk
            /\ HandleReturn(t, o.res)
  /\ UNCHANGED <<hVars, fds, dirent, lifeVars, now, nRecs, initVars, multiVars, restVars>>

\* fileHandlerWrapper.Handle, line 852: w.inner.Handle(ctx, r)
WrapperWrite(t) ==
  /\ pc[t] = "write" /\ op[t].kind = "WHandle"
  /\ \E o \in WriteOutcomes(wrappers[op[t].w].inner, op[t]) :
       /\ disk' = o.disk
       /\ HandleReturn(t, o.res)
  /\ UNCHANGED <<hVars, fds, dirent, lifeVars, now, nRecs, initVars, multiVars, restVars>>

\* ------------------------------------------------- WithAttrs / WithGroup
\* DailyFileHandler.WithAttrs / WithGroup, lines 681-707: under the lock,
\* the sink itself when there is no encoder, else a wrapper around the
\* current encoder with one more element bound
SinkWith(t) ==
  /\ pc[t] = "idle" /\ mu = 0
  /\ Len(wrappers) < MaxWrappers
  /\ IF curInner = NilInner
       THEN /\ last' = Done("With", 0, 0, "self", 0, 0, FALSE)
            /\ UNCHANGED wrappers
       ELSE /\ wrappers' = Append(wrappers, [inner |-> InnerWith(curInner), prev |-> 0])
            /\ last' = Done("With", 0, 0, "wrapper", Len(wrappers) + 1, 0, FALSE)
  /\ UNCHANGED <<sinkVars, now, pc, op, nRecs, initVars, multiVars, restVars>>

\* fileHandlerWrapper.WithAttrs / WithGroup, lines 855-867
WrapperWith(t, w) ==
  /\ pc[t] = "idle"
  /\ w \in 1 .. Len(wrappers)
  /\ Len(wrappers) < MaxWrappers
  /\ wrappers' = Append(wrappers, [inner |-> InnerWith(wrappers[w].inner), prev |-> 0])
  /\ last' = Done("With", 0, 0, "wrapper", Len(wrappers) + 1, 0, FALSE)
  /\ UNCHANGED <<sinkVars, now, pc, op, nRecs, initVars, multiVars, restVars>>

\* ------------------------------------------------- DailyFileHandler.Close
\* the body stopping the ticker and leaving the channel open
CloseBodyKeepChannel(t) ==
  /\ cleanTicker' = IF cleanTicker # "nil" THEN "stopped" ELSE cleanTicker
  /\ UNCHANGED <<cleanDone, chanCloses, panicked>>
  /\ pc' = [pc EXCEPT ![t] = "c_lock"]
  /\ op' = [op EXCEPT ![t] = [kind |-> "Close", day |-> 0, rec |-> 0, w |-> 0]]
  /\ last' = NoCall

\* lines 712-717, run by whoever h.closeOnce.Do lets in
CloseBody(t) ==
  /\ cleanTicker' = IF cleanTicker # "nil" THEN "stopped" ELSE cleanTicker
  /\ IF cleanDone = "nil"
       THEN UNCHANGED <<cleanDone, chanCloses, panicked>>
       ELSE IF cleanDone = "closed"
         THEN /\ panicked' = TRUE      \* close of a closed channel
              /\ UNCHANGED <<cleanDone, chanCloses>>
         ELSE /\ cleanDone' = "closed"
              /\ chanCloses' = chanCloses + 1
              /\ UNCHANGED panicked
  /\ pc' = [pc EXCEPT ![t] = "c_lock"]
  /\ op' = [op EXCEPT ![t] = [kind |-> "Close", day |-> 0, rec |-> 0, w |-> 0]]
  /\ last' = NoCall

\* Close with the body run on every call
CloseNoOnce(t) ==
  /\ pc[t] = "idle"
  /\ closeOnce' = "running"
  /\ CloseBody(t)
  /\ UNCHANGED <<mu, hVars, fsVars, now, wrappers, nRecs, initVars, multiVars, restVars>>

\* Close, lines 709-711 and 728: h.closeOnce.Do; a call that finds the Once
\* done returns the zero err, one that finds it running waits
CloseOnceDo(t) ==
  /\ pc[t] = "idle"
  /\ \/ /\ closeOnce = "fresh"
        /\ closeOnce' = "running"
        /\ CloseBody(t)
     \/ /\ closeOnce = "done"
        /\ last' = Done("Close", 0, 0, "nil", 0, 0, FALSE)
        /\ UNCHANGED <<lifeVars, pc, op>>
  /\ UNCHANGED <<mu, hVars, fsVars, now, wrappers, nRecs, initVars, multiVars, restVars>>

\* Close, lines 719-720: h.mu.Lock()
CloseLock(t) ==
  /\ pc[t] = "c_lock" /\ mu = 0
  /\ mu' = t
  /\ pc' = [pc EXCEPT ![t] = "c_release"]
  /\ last' = NoCall
  /\ UNCHANGED <<hVars, fsVars, lifeVars, now, wrappers, op, nRecs, initVars, multiVars, restVars>>

\* the release step leaving the encoder in place
CloseReleaseKeepInner(t) ==
  /\ pc[t] = "c_release"
  /\ \E res \in IF curFile # 0 THEN {"nil", "err_close"} ELSE {"nil"} :
       last' = Done("Close", 0, 0, res, 0, 0, TRUE)
  /\ fds' = IF curFile # 0 THEN CloseFd(fds, curFile) ELSE fds
  /\ curFile' = 0
  /\ mu' = 0
  /\ closeOnce' = "done"
  /\ pc' = [pc EXCEPT ![t] = "idle"]
  /\ op' = [op EXCEPT ![t] = IdleOp]
  /\ UNCHANGED <<curDate, curInner, disk, dirent, cleanTicker, cleanDone, chanCloses,
                 panicked, now, wrappers, nRecs, initVars, multiVars, restVars>>

\* Close, lines 722-728: the handle is closed and both fields are cleared,
\* the lock is released, the Once completes and err is returned
CloseRelease(t) ==
  /\ pc[t] = "c_release"
  /\ \E res \in IF curFile # 0 THEN {"nil", "err_close"} ELSE {"nil"} :
       last' = Done("Close", 0, 0, res, 0, 0, TRUE)
  /\ fds' = IF curFile # 0 THEN CloseFd(fds, curFile) ELSE fds
  /\ curFile' = 0
  /\ curInner' = IF curFile # 0 THEN NilInner ELSE curInner
  /\ mu' = 0
  /\ closeOnce' = "done"
  /\ pc' = [pc EXCEPT ![t] = "idle"]
  /\ op' = [op EXCEPT ![t] = IdleOp]
  /\ UNCHANGED <<curDate, disk, dirent, cleanTicker, cleanDone, chanCloses,
                 panicked, now, wrappers, nRecs, initVars, multiVars, restVars>>

\* ------------------------------------------------------------ InitLogger
\* LogOutput values (lines 440-445) and one value with neither bit set
Outputs == {0, 1, 2, 3, 4}
Formats == {"", "text", "json", "xml"}
Configs == [Output : Outputs, Format : Formats]
HasFileBit(c) == c.Output % 2 = 1               \* cfg.Output&OutputFile != 0
HasTermBit(c) == (c.Output \div 2) % 2 = 1      \* cfg.Output&OutputTerminal != 0
NoFrame == [cfg |-> [Output |-> 0, Format |-> ""], handlers |-> <<>>, via |-> "none"]

\* LogConfig.validate, lines 547-575 (the fields InitLogger branches on)
ValidateErr(c) ==
  IF c.Output = 0 THEN "invalid config: output target cannot be OutputNone"
  ELSE IF c.Format \notin {"", "text", "json"}
    THEN "invalid config: unsupported log format"
    ELSE "nil"
ValidateFill(c) == [c EXCEPT !.Format = IF @ = "" THEN "text" ELSE @]

\* InitLogger, lines 513-517: what the call returns
InitResult == IF initErr # "nil" THEN [logger |-> 0, err |-> initErr]
              ELSE [logger |-> onceLogger, err |-> "nil"]

\* after InitLogger returned: back to the caller, or on into GetLogger
AfterInit(t, via) == IF via = "Get" THEN "g_tail" ELSE "idle"

\* loggerOnce.Do as a plain test of the done flag, without exclusion
InitEnterNoOnce(t, c, via) ==
  /\ IF loggerOnce # "done"
       THEN /\ loggerOnce' = "running"
            /\ bodyRuns' = bodyRuns + 1
            /\ bodyVia' = via
            /\ ifr' = [ifr EXCEPT ![t] = [cfg |-> c, handlers |-> <<>>, via |-> via]]
            /\ pc' = [pc EXCEPT ![t] = "i_validate"]
            /\ last' = NoCall
            /\ UNCHANGED results
       ELSE /\ results' = results \cup {InitResult}
            /\ last' = Returned("Init", InitResult.err, InitResult.logger, FALSE)
            /\ pc' = [pc EXCEPT ![t] = AfterInit(t, via)]
            /\ UNCHANGED <<loggerOnce, bodyRuns, bodyVia, ifr>>
  /\ askedOutput' = c.Output
  /\ UNCHANGED <<onceLogger, onceFileHandler, initErr, slogDefault, loggers,
                 sinksBuilt, sweepers, termsBuilt>>

\* InitLogger, line 471 and lines 513-517: loggerOnce.Do lets the first
\* caller run the function, holds every other caller until it has returned,
\* and a caller that finds the Once done goes straight to the return
InitEnter(t, c, via) ==
  /\ loggerOnce # "running"
  /\ IF loggerOnce = "fresh"
       THEN /\ loggerOnce' = "running"
            /\ bodyRuns' = bodyRuns + 1
            /\ bodyVia' = via
            /\ ifr' = [ifr EXCEPT ![t] = [cfg |-> c, handlers |-> <<>>, via |-> via]]
            /\ pc' = [pc EXCEPT ![t] = "i_validate"]
            /\ last' = NoCall
            /\ UNCHANGED results
       ELSE /\ results' = results \cup {InitResult}
            /\ last' = Returned("Init", InitResult.err, InitResult.logger, FALSE)
            /\ pc' = [pc EXCEPT ![t] = AfterInit(t, via)]
            /\ UNCHANGED <<loggerOnce, bodyRuns, bodyVia, ifr>>
  /\ askedOutput' = c.Output
  /\ UNCHANGED <<onceLogger, onceFileHandler, initErr, slogDefault, loggers,
                 sinksBuilt, sweepers, termsBuilt>>

\* InitLogger(cfg) called by goroutine t
InitCall(t, c) ==
  /\ pc[t] = "idle"
  /\ InitEnter(t, c, "Init")
  /\ UNCHANGED <<sinkVars, now, wrappers, op, nRecs, multiVars, deriveVars, sweepVars,
                 termVars, pureVars, hLevel>>

\* the Once's function returning early with an error (lines 473-474,
\* 483-484, 497-498): the Once completes
BodyFails(t, e) ==
  /\ initErr' = e
  /\ loggerOnce' = "done"
  /\ pc' = [pc EXCEPT ![t] = "i_return"]

\* lines 472-475: cfg.validate()
IValidate(t) ==
  /\ pc[t] = "i_validate"
  /\ IF ValidateErr(ifr[t].cfg) # "nil"
       THEN /\ BodyFails(t, ValidateErr(ifr[t].cfg))
            /\ UNCHANGED ifr
       ELSE /\ ifr' = [ifr EXCEPT ![t].cfg = ValidateFill(@)]
            /\ pc' = [pc EXCEPT ![t] = "i_file"]
            /\ UNCHANGED <<initErr, loggerOnce>>
  /\ last' = NoCall
  /\ UNCHANGED <<sinkVars, now, wrappers, op, nRecs, multiVars, onceLogger,
                 onceFileHandler, slogDefault, loggers, results, bodyRuns,
                 sinksBuilt, sweepers, termsBuilt, restVars>>

\* NewFileHandler succeeding (lines 641-660): the first file is opened for
\* time.Now(), the ticker and the stop channel are made and the sweep
\* goroutine is started
NewFileHandlerOk ==
  /\ OpenFile(now)
  /\ curDate' = now
  /\ curFile' = Len(fds) + 1
  /\ curInner' = NewInner(Len(fds) + 1)
  /\ cleanTicker' = "running"
  /\ cleanDone' = "open"
  /\ closeOnce' = "fresh"
  /\ sweepers' = sweepers + 1
  /\ sinksBuilt' = sinksBuilt + 1

\* the file branch recording the error and going on
IFileKeepGoing(t) ==
  /\ pc[t] = "i_file"
  /\ IF HasFileBit(ifr[t].cfg)
       THEN \/ /\ NewFileHandlerOk
               /\ onceFileHandler' = TRUE
               /\ ifr' = [ifr EXCEPT ![t].handlers = Append(@, "file")]
               /\ UNCHANGED initErr
            \/ /\ \E e \in {"create file handler failed: create log directory failed",
                             "create file handler failed: open log file failed"} :
                    initErr' = e
               /\ UNCHANGED <<hVars, fsVars, cleanTicker, cleanDone, closeOnce,
                              sweepers, sinksBuilt, onceFileHandler, ifr>>
       ELSE UNCHANGED <<hVars, fsVars, cleanTicker, cleanDone, closeOnce, sweepers,
                        sinksBuilt, onceFileHandler, ifr, initErr>>
  /\ pc' = [pc EXCEPT ![t] = "i_term"]
  /\ last' = NoCall
  /\ UNCHANGED <<mu, chanCloses, panicked, now, wrappers, op, nRecs, multiVars,
                 loggerOnce, onceLogger, slogDefault, loggers, results, bodyRuns,
                 termsBuilt, restVars>>

\* lines 479-488: the file handler, when the file bit is set; MkdirAll or
\* the first OpenFile may fail, and then nothing of the sink remains
IFile(t) ==
  /\ pc[t] = "i_file"
  /\ IF HasFileBit(ifr[t].cfg)
       THEN \/ /\ NewFileHandlerOk
               /\ onceFileHandler' = TRUE
               /\ ifr' = [ifr EXCEPT ![t].handlers = Append(@, "file")]
               /\ pc' = [pc EXCEPT ![t] = "i_term"]
               /\ UNCHANGED <<initErr, loggerOnce>>
            \/ /\ \E e \in {"create file handler failed: create log directory failed",
                             "create file handler failed: open log file failed"} :
                    BodyFails(t, e)
               /\ UNCHANGED <<hVars, fsVars, cleanTicker, cleanDone, closeOnce,
                              sweepers, sinksBuilt, onceFileHandler, ifr>>
       ELSE /\ pc' = [pc EXCEPT ![t] = "i_term"]
            /\ UNCHANGED <<hVars, fsVars, cleanTicker, cleanDone, closeOnce, sweepers,
                           sinksBuilt, onceFileHandler, ifr, initErr, loggerOnce>>
  /\ last' = NoCall
  /\ UNCHANGED <<mu, chanCloses, panicked, now, wrappers, op, nRecs, multiVars,
                 onceLogger, slogDefault, loggers, results, bodyRuns, termsBuilt, restVars>>

\* lines 490-494: the terminal handler, when the terminal bit is set
ITerm(t) ==
  /\ pc[t] = "i_term"
  /\ IF HasTermBit(ifr[t].cfg)
       THEN /\ termsBuilt' = termsBuilt + 1
            /\ ifr' = [ifr EXCEPT ![t].handlers = Append(@, "term")]
       ELSE UNCHANGED <<termsBuilt, ifr>>
  /\ pc' = [pc EXCEPT ![t] = "i_build"]
  /\ last' = NoCall
  /\ UNCHANGED <<sinkVars, now, wrappers, op, nRecs, multiVars, loggerOnce,
                 onceLogger, onceFileHandler, initErr, slogDefault, loggers,
                 results, bodyRuns, sinksBuilt, sweepers, restVars>>

\* the build step wrapping even a single handler in a MultiHandler
IBuildAlwaysMulti(t) ==
  /\ pc[t] = "i_build"
  /\ IF ifr[t].handlers = <<>>
       THEN /\ BodyFails(t, "no output target specified")
            /\ UNCHANGED <<loggers, onceLogger>>
       ELSE /\ loggers' = Append(loggers,
                    [multi |-> TRUE, handlers |-> ifr[t].handlers])
            /\ onceLogger' = Len(loggers) + 1
            /\ pc' = [pc EXCEPT ![t] = "i_setdefault"]
            /\ UNCHANGED <<initErr, loggerOnce>>
  /\ last' = NoCall
  /\ UNCHANGED <<sinkVars, now, wrappers, op, nRecs, multiVars, onceFileHandler,
                 slogDefault, ifr, results, bodyRuns, sinksBuilt, sweepers,
                 termsBuilt, restVars>>

\* lines 496-509: no handler is an error; one handler is used as it is, two
\* are wrapped in a MultiHandler; onceLogger = slog.New(finalHandler)
IBuild(t) ==
  /\ pc[t] = "i_build"
  /\ IF ifr[t].handlers = <<>>
       THEN /\ BodyFails(t, "no output target specified")
            /\ UNCHANGED <<loggers, onceLogger>>
       ELSE /\ loggers' = Append(loggers,
                    [multi |-> Len(ifr[t].handlers) # 1, handlers |-> ifr[t].handlers])
            /\ onceLogger' = Len(loggers) + 1
            /\ pc' = [pc EXCEPT ![t] = "i_setdefault"]
            /\ UNCHANGED <<initErr, loggerOnce>>
  /\ last' = NoCall
  /\ UNCHANGED <<sinkVars, now, wrappers, op, nRecs, multiVars, onceFileHandler,
                 slogDefault, ifr, results, bodyRuns, sinksBuilt, sweepers,
                 termsBuilt, restVars>>

\* lines 510-511: slog.SetDefault(onceLogger); the Once completes
ISetDefault(t) ==
  /\ pc[t] = "i_setdefault"
  /\ slogDefault' = onceLogger
  /\ loggerOnce' = "done"
  /\ pc' = [pc EXCEPT ![t] = "i_return"]
  /\ last' = NoCall
  /\ UNCHANGED <<sinkVars, now, wrappers, op, nRecs, multiVars, onceLogger,
                 onceFileHandler, initErr, loggers, ifr, results, bodyRuns,
                 sinksBuilt, sweepers, termsBuilt, restVars>>

\* lines 513-517 in the goroutine that ran the function
IReturn(t) ==
  /\ pc[t] = "i_return"
  /\ results' = results \cup {InitResult}
  /\ last' = Returned("Init", InitResult.err, InitResult.logger, TRUE)
  /\ pc' = [pc EXCEPT ![t] = AfterInit(t, ifr[t].via)]
  /\ ifr' = [ifr EXCEPT ![t] = NoFrame]
  /\ UNCHANGED <<sinkVars, now, wrappers, op, nRecs, multiVars, loggerOnce,
                 onceLogger, onceFileHandler, initErr, slogDefault, loggers,
                 bodyRuns, sinksBuilt, sweepers, termsBuilt, restVars>>

\* ------------------------------------------------------------- GetLogger
\* lines 522-524: onceLogger is read without synchronisation, so a set
\* pointer may still be seen as nil; a non-nil one is returned
GetCall(t) ==
  /\ pc[t] = "idle"
  /\ \E seen \in {0, onceLogger} :
       IF seen # 0
         THEN /\ last' = Returned("Get", "logger", seen, FALSE)
              /\ UNCHANGED pc
         ELSE /\ pc' = [pc EXCEPT ![t] = "g_init"]
              /\ last' = NoCall
  /\ UNCHANGED <<sinkVars, now, wrappers, op, nRecs, multiVars, initVars, restVars>>

\* GetLogger falling back on a file-and-terminal configuration
GetInitBoth(t) ==
  /\ pc[t] = "g_init"
  /\ InitEnter(t, [Output |-> 3, Format |-> ""], "Get")
  /\ UNCHANGED <<sinkVars, now, wrappers, op, nRecs, multiVars, deriveVars,
                 sweepVars, termVars, pureVars, hLevel>>

\* lines 527-529: InitLogger(&LogConfig{Output: OutputTerminal})
GetInit(t) ==
  /\ pc[t] = "g_init"
  /\ InitEnter(t, [Output |-> 2, Format |-> ""], "Get")
  /\ UNCHANGED <<sinkVars, now, wrappers, op, nRecs, multiVars, deriveVars, sweepVars,
                 termVars, pureVars, hLevel>>

\* GetLogger returning onceLogger whatever it is
GetTailNoFallback(t) ==
  /\ pc[t] = "g_tail"
  /\ last' = Returned("Get", IF onceLogger # 0 THEN "logger" ELSE "nil", onceLogger, FALSE)
  /\ pc' = [pc EXCEPT ![t] = "idle"]
  /\ UNCHANGED <<sinkVars, now, wrappers, op, nRecs, multiVars, initVars, restVars>>

\* lines 531-535: onceLogger when set, else slog.Default()
GetTail(t) ==
  /\ pc[t] = "g_tail"
  /\ last' = IF onceLogger # 0
               THEN Returned("Get", "logger", onceLogger, FALSE)
               ELSE Returned("Get", IF slogDefault = 0 THEN "bare" ELSE "logger",
                             slogDefault, FALSE)
  /\ pc' = [pc EXCEPT ![t] = "idle"]
  /\ UNCHANGED <<sinkVars, now, wrappers, op, nRecs, multiVars, initVars, restVars>>

\* ----------------------------------------------------------- package Close
\* lines 539-544: the file handler's Close when one was built (the pointer
\* is read without synchronisation), else nil
PkgClose(t) ==
  /\ pc[t] = "idle"
  /\ \E seen \in {FALSE, onceFileHandler} :
       IF seen
         THEN CloseOnceDo(t)
         ELSE /\ last' = Done("Close", 0, 0, "nil", 0, 0, FALSE)
              /\ UNCHANGED <<sinkVars, now, wrappers, pc, op, nRecs, initVars, multiVars, restVars>>

\* ---------------------------------------------------------- MultiHandler
MaxMembers == 2
\* slog.LevelDebug, LevelInfo, LevelWarn, LevelError
Levels == {-4, 0, 4, 8}
\* a member handler as MultiHandler sees it: Enabled compares a minimum
\* level with the record's (lines 662-664, 904-906), Handle succeeds or
\* returns the member's error; bound lists what WithAttrs / WithGroup calls
\* have bound to it
Members == [min : Levels, fails : BOOLEAN, bound : {<<>>}]
MemberEnabled(h, level) == h.min <= level
NoResult == [returned |-> FALSE, errs |-> <<>>]

\* Handle, lines 594-595: a call starts with no errors collected
MHCall(level) ==
  /\ mhI = 0
  /\ mhLevel' = level
  /\ mhI' = 1
  /\ mhErrs' = <<>>
  /\ mhCalled' = <<>>
  /\ mhRes' = NoResult
  /\ last' = NoCall
  /\ UNCHANGED <<mhHandlers, sinkVars, now, wrappers, pc, op, nRecs, initVars, restVars>>

\* the loop giving up at the first member error
MHStepShortCircuit ==
  /\ mhI \in 1 .. Len(mhHandlers)
  /\ IF ~MemberEnabled(mhHandlers[mhI], mhLevel)
       THEN /\ mhI' = mhI + 1
            /\ UNCHANGED <<mhCalled, mhErrs>>
       ELSE /\ mhCalled' = Append(mhCalled, mhI)
            /\ mhErrs' = IF mhHandlers[mhI].fails THEN Append(mhErrs, mhI) ELSE mhErrs
            /\ mhI' = IF mhHandlers[mhI].fails THEN Len(mhHandlers) + 1 ELSE mhI + 1
  /\ last' = NoCall
  /\ UNCHANGED <<mhHandlers, mhLevel, mhRes, sinkVars, now, wrappers, pc, op,
                 nRecs, initVars, restVars>>

\* Handle, lines 597-605: one iteration; a member that is not enabled is
\* skipped, an error of an enabled member is appended to errs (member i's
\* error is written i)
MHStep ==
  /\ mhI \in 1 .. Len(mhHandlers)
  /\ IF ~MemberEnabled(mhHandlers[mhI], mhLevel)
       THEN UNCHANGED <<mhCalled, mhErrs>>
       ELSE /\ mhCalled' = Append(mhCalled, mhI)
            /\ mhErrs' = IF mhHandlers[mhI].fails THEN Append(mhErrs, mhI) ELSE mhErrs
  /\ mhI' = mhI + 1
  /\ last' = NoCall
  /\ UNCHANGED <<mhHandlers, mhLevel, mhRes, sinkVars, now, wrappers, pc, op,
                 nRecs, initVars, restVars>>

\* Handle, lines 607-611: errors.Join(errs...) when there are any, else nil
\* (an empty errs in the result stands for nil)
MHReturn ==
  /\ mhI = Len(mhHandlers) + 1
  /\ mhRes' = [returned |-> TRUE, errs |-> mhErrs]
  /\ mhI' = 0
  /\ last' = NoCall
  /\ UNCHANGED <<mhHandlers, mhLevel, mhErrs, mhCalled, sinkVars, now, wrappers,
                 pc, op, nRecs, initVars, restVars>>

\* --------------------------------------------------- MultiHandler.Enabled
NoEnabled == [called |-> FALSE, level |-> 0, res |-> FALSE]

\* the loop returning false at the first member that is not enabled
RECURSIVE MHEnabledAll(_, _, _)
MHEnabledAll(hs, i, level) ==
  IF i > Len(hs) THEN TRUE
  ELSE IF ~MemberEnabled(hs[i], level) THEN FALSE
  ELSE MHEnabledAll(hs, i + 1, level)

\* lines 586-591: the loop from member i on, true at the first member that
\* is enabled, false when the members are exhausted
RECURSIVE MHEnabledFrom(_, _, _)
MHEnabledFrom(hs, i, level) ==
  IF i > Len(hs) THEN FALSE
  ELSE IF MemberEnabled(hs[i], level) THEN TRUE
  ELSE MHEnabledFrom(hs, i + 1, level)

\* mh.Enabled(ctx, level)
MHEnabledCall(level) ==
  /\ mhEn' = [called |-> TRUE, level |-> level,
              res |-> MHEnabledFrom(mhHandlers, 1, level)]
  /\ last' = NoCall
  /\ UNCHANGED <<multiVars, sinkVars, now, wrappers, pc, op, nRecs, initVars,
                 deriveVars, sweepVars, termVars, validateVars, execVars,
                 hLevel, histVars, hwVars>>

\* ------------------------------------- MultiHandler.WithAttrs / WithGroup
WithKinds == {"attrs", "group"}
\* a member's WithAttrs / WithGroup: a handler like it with one more bound
\* element
MemberWith(h, k) == [h EXCEPT !.bound = Append(@, k)]
\* a nil slot of make([]slog.Handler, n)
NoMember == [min |-> 0, fails |-> FALSE, bound |-> <<"nil">>]
NoDerived == [made |-> FALSE, kind |-> "none", handlers |-> <<>>]

\* lines 614-615, 622-623: handlers := make([]slog.Handler, len(mh.handlers))
MHWithCall(k) ==
  /\ mhWI = 0
  /\ mhNew' = [i \in 1 .. Len(mhHandlers) |-> NoMember]
  /\ mhWI' = 1
  /\ mhDerived' = [made |-> FALSE, kind |-> k, handlers |-> <<>>]
  /\ last' = NoCall
  /\ UNCHANGED <<sinkVars, now, wrappers, pc, op, nRecs, initVars, multiVars,
                 sweepVars, termVars, callVars>>

\* the loop decorating the members where they are, in mh.handlers
MHWithStepInPlace ==
  /\ mhWI \in 1 .. Len(mhHandlers)
  /\ mhHandlers' = [mhHandlers EXCEPT ![mhWI] = MemberWith(@, mhDerived.kind)]
  /\ mhNew' = [mhNew EXCEPT ![mhWI] = MemberWith(mhHandlers[mhWI], mhDerived.kind)]
  /\ mhWI' = mhWI + 1
  /\ last' = NoCall
  /\ UNCHANGED <<mhLevel, mhI, mhErrs, mhCalled, mhRes, mhDerived, sinkVars, now,
                 wrappers, pc, op, nRecs, initVars, sweepVars, termVars, callVars>>

\* lines 616-618, 624-626: handlers[i] = h.WithAttrs(attrs) / h.WithGroup(name)
MHWithStep ==
  /\ mhWI \in 1 .. Len(mhHandlers)
  /\ mhNew' = [mhNew EXCEPT ![mhWI] = MemberWith(mhHandlers[mhWI], mhDerived.kind)]
  /\ mhWI' = mhWI + 1
  /\ last' = NoCall
  /\ UNCHANGED <<mhDerived, sinkVars, now, wrappers, pc, op, nRecs, initVars,
                 multiVars, sweepVars, termVars, callVars>>

\* lines 619, 627: return &MultiHandler{handlers: handlers}
MHWithReturn ==
  /\ mhWI = Len(mhHandlers) + 1
  /\ mhDerived' = [mhDerived EXCEPT !.made = TRUE, !.handlers = mhNew]
  /\ mhWI' = 0
  /\ last' = NoCall
  /\ UNCHANGED <<mhNew, sinkVars, now, wrappers, pc, op, nRecs, initVars,
                 multiVars, sweepVars, termVars, callVars>>

\* ------------------------------------------------------ retention sweep
MaxRetain == 1      \* cfg.RetainDays is drawn from 0 .. MaxRetain
NOld == 2           \* day files already in the directory at construction
OldDays == (0 - NOld) .. (0 - 1)
\* a date older than every cutoff the sweep can compute
LongAgo == 0 - (MaxRetain + NOld + 1)

\* What os.ReadDir can return besides day files: a directory whose name has
\* the prefix, the suffix and an old date; a file without the prefix; one
\* without the suffix; one whose date part does not parse.  A DirEntry is
\* [kind, date]; date is meaningful where the name carries a parseable one.
OtherEntries == {[kind |-> "dir", date |-> LongAgo],
                 [kind |-> "noprefix", date |-> LongAgo],
                 [kind |-> "nosuffix", date |-> LongAgo],
                 [kind |-> "baddate", date |-> 0]}
OtherOrder == <<[kind |-> "dir", date |-> LongAgo],
                [kind |-> "noprefix", date |-> LongAgo],
                [kind |-> "nosuffix", date |-> LongAgo],
                [kind |-> "baddate", date |-> 0]>>
LogEntry(d) == [kind |-> "log", date |-> d]

IsDir(e) == e.kind = "dir"                          \* entry.IsDir()
HasPrefix(e) == e.kind # "noprefix"                 \* strings.HasPrefix(name, prefix)
HasSuffix(e) == e.kind # "nosuffix"                 \* strings.HasSuffix(name, suffix)
ParseOk(e) == e.kind # "baddate"                    \* time.Parse("2006-01-02", dateStr)

\* instants in half days: a parsed date is midnight of its day
Midnight(d) == 2 * d
\* lines 800-803: now.AddDate(0, 0, -RetainDays) keeps the time of day of
\* time.Now(); tod is 0 at midnight exactly and 1 later in the day
Cutoff(day, tod) == 2 * (day - retain) + tod
\* the test with a cutoff that allows equality
BeforeOrAt(d, cut) == Midnight(d) <= cut
\* the test taken a whole day late
BeforeDayLate(d, cut) == Midnight(d) + 2 < cut
\* line 822: date.Before(cutoff)
Before(d, cut) == Midnight(d) < cut

RECURSIVE SelectSeq2(_, _)
SelectSeq2(q, S) ==
  IF q = <<>> THEN <<>>
  ELSE IF Head(q) \in S THEN <<Head(q)>> \o SelectSeq2(Tail(q), S)
       ELSE SelectSeq2(Tail(q), S)
RECURSIVE DayEntries(_)
DayEntries(S) ==
  IF S = {} THEN <<>>
  ELSE LET d == CHOOSE x \in S : \A y \in S : x <= y
       IN <<LogEntry(d)>> \o DayEntries(S \ {d})
\* os.ReadDir succeeding (line 794): the entries in file name order
Listing ==
  SelectSeq2(OtherOrder, others) \o DayEntries({d \in DOMAIN dirent : dirent[d] # 0})

\* the ticker firing as a day passes (line 656): the clock moves on and a
\* running ticker leaves a tick in its channel, whose buffer holds one
Tick ==
  /\ now < NDays
  /\ now' = now + 1
  /\ tickC' = IF cleanTicker = "running" THEN 1 ELSE tickC
  /\ last' = NoCall
  /\ UNCHANGED <<sinkVars, wrappers, pc, op, nRecs, initVars, multiVars, deriveVars,
                 retain, swPc, swList, swCut, swFailed, swSnap, others, swPasses,
                 termVars, callVars>>

\* cleanOldLogs entered (line 777 at goroutine start, line 782 after a
\* tick), lines 789-803: nothing to do without a retention window; a failed
\* ReadDir is reported and ends the call; else the listing and the cutoff
CleanOldLogsBegin ==
  /\ swPc = "clean"
  /\ \/ /\ retain <= 0
        /\ swPc' = "select" /\ swPasses' = swPasses + 1
        /\ UNCHANGED <<swList, swCut, swSnap>>
     \/ /\ retain > 0
        /\ swPc' = "select" /\ swPasses' = swPasses + 1
        /\ UNCHANGED <<swList, swCut, swSnap>>
     \/ /\ retain > 0
        /\ swList' = Listing
        /\ swSnap' = dirent
        /\ \E tod \in {0, 1} : swCut' = Cutoff(now, tod)
        /\ swPc' = "scan"
        /\ UNCHANGED swPasses
  /\ last' = NoCall
  /\ UNCHANGED <<sinkVars, now, wrappers, pc, op, nRecs, initVars, multiVars,
                 deriveVars, retain, swFailed, tickC, others, termVars, callVars>>

\* os.Remove(path) of the entry e (line 824) succeeding
Remove(e) ==
  IF e.kind = "log"
    THEN /\ dirent' = [dirent EXCEPT ![e.date] = 0]
         /\ UNCHANGED others
    ELSE /\ others' = others \ {e}
         /\ UNCHANGED dirent

\* what one iteration does with the entry once it is known to be expired:
\* the removal succeeds, or fails and is reported (lines 823-829)
RemoveOrWarn(e) ==
  \/ /\ Remove(e)
     /\ UNCHANGED swFailed
  \/ /\ swFailed' = swFailed \cup {[pass |-> swPasses, day |-> e.date]}
     /\ UNCHANGED <<dirent, others>>

\* the iteration leaving the loop when a removal fails
CleanOldLogsEntryAbort ==
  /\ swPc = "scan" /\ swList # <<>>
  /\ LET e == Head(swList) IN
       IF IsDir(e) \/ ~HasPrefix(e) \/ ~HasSuffix(e) \/ ~ParseOk(e)
         THEN /\ swList' = Tail(swList)
              /\ UNCHANGED <<dirent, others, swFailed>>
         ELSE IF Before(e.date, swCut)
           THEN \/ /\ Remove(e)
                   /\ swList' = Tail(swList)
                   /\ UNCHANGED swFailed
                \/ /\ swFailed' = swFailed \cup {[pass |-> swPasses, day |-> e.date]}
                   /\ swList' = <<>>
                   /\ UNCHANGED <<dirent, others>>
           ELSE /\ swList' = Tail(swList)
                /\ UNCHANGED <<dirent, others, swFailed>>
  /\ last' = NoCall
  /\ UNCHANGED <<mu, hVars, fds, disk, lifeVars, now, wrappers, pc, op, nRecs,
                 initVars, multiVars, deriveVars, retain, swPc, swCut, swSnap,
                 tickC, swPasses, termVars, callVars>>

\* lines 805-831, one iteration of the loop over the listing
CleanOldLogsEntry ==
  /\ swPc = "scan" /\ swList # <<>>
  /\ LET e == Head(swList) IN
       IF IsDir(e) \/ ~HasPrefix(e) \/ ~HasSuffix(e) \/ ~ParseOk(e)
         THEN UNCHANGED <<dirent, others, swFailed>>
         ELSE IF Before(e.date, swCut)
           THEN RemoveOrWarn(e)
           ELSE UNCHANGED <<dirent, others, swFailed>>
  /\ swList' = Tail(swList)
  /\ last' = NoCall
  /\ UNCHANGED <<mu, hVars, fds, disk, lifeVars, now, wrappers, pc, op, nRecs,
                 initVars, multiVars, deriveVars, retain, swPc, swCut, swSnap,
                 tickC, swPasses, termVars, callVars>>

\* line 832: the loop over the listing is over and cleanOldLogs returns
CleanOldLogsReturn ==
  /\ swPc = "scan" /\ swList = <<>>
  /\ swPc' = "select"
  /\ swPasses' = swPasses + 1
  /\ last' = NoCall
  /\ UNCHANGED <<sinkVars, now, wrappers, pc, op, nRecs, initVars, multiVars,
                 deriveVars, retain, swList, swCut, swFailed, swSnap, tickC,
                 others, termVars, callVars>>

\* cleanOldLogsLoop, lines 779-786: the select takes a buffered tick and
\* sweeps again, or sees the closed channel and returns; with both ready
\* either may be taken
LoopSelect ==
  /\ swPc = "select"
  /\ \/ /\ tickC > 0
        /\ tickC' = tickC - 1
        /\ swPc' = "clean"
     \/ /\ cleanDone = "closed"
        /\ swPc' = "exited"
        /\ UNCHANGED tickC
  /\ last' = NoCall
  /\ UNCHANGED <<sinkVars, now, wrappers, pc, op, nRecs, initVars, multiVars,
                 deriveVars, retain, swList, swCut, swFailed, swSnap, others,
                 swPasses, termVars, callVars>>

\* the steps of the sweep goroutine
Sweeper == CleanOldLogsBegin \/ CleanOldLogsEntry \/ CleanOldLogsReturn \/ LoopSelect

\* ------------------------------------------------------ TerminalHandler
MaxTerms == 1       \* handlers derived by WithAttrs / WithGroup
MaxBufs == 2        \* bytes.Buffer objects bufPool.New makes
\* each goroutine makes one Handle call on a terminal handler
TermCalls == Cardinality(Threads)
\* slog levels: Debug, Info, Warn, one between Warn and Error, Error, one
\* above Error
TermLevels == {-4, 0, 4, 6, 8, 12}

\* lines 895-902 (ESC is the escape character)
colorReset == "ESC[0m"
colorRed == "ESC[31m"
colorYellow == "ESC[33m"
colorBlue == "ESC[34m"
colorGray == "ESC[90m"

\* the switch with the warning color for every level from Warn up to Error
ColorOfWarnUp(level) ==
  IF level >= LevelError THEN colorRed
  ELSE IF level >= LevelWarn THEN colorYellow
  ELSE IF level = LevelInfo THEN colorBlue
  ELSE colorGray

\* lines 919-929: the switch on r.Level
ColorOf(level) ==
  IF level >= LevelError THEN colorRed
  ELSE IF level = LevelWarn THEN colorYellow
  ELSE IF level = LevelInfo THEN colorBlue
  ELSE colorGray

\* a bytes.Buffer after Reset, and after slog.NewTextHandler(buf, h.opts)
\* has encoded record r into it: a handler made on the spot carries no
\* bound attribute or group
EmptyBuf == [rec |-> 0, bound |-> <<>>]
Encoded(r) == [rec |-> r, bound |-> <<>>]

NoTFrame == [h |-> 0, rec |-> 0, level |-> 0, buf |-> 0, res |-> "none"]
\* one Write call on h.out
OutWrite(f, part, color, body) ==
  [h |-> f.h, rec |-> f.rec, level |-> f.level, part |-> part,
   color |-> color, body |-> body]

\* WithAttrs / WithGroup, lines 941-959: a new TerminalHandler sharing out,
\* opts, colorize, bufPool and inner; the argument is not kept.  want is
\* what the callers have asked to be bound along the derivation.
TermWith(h, k) ==
  /\ h \in 1 .. Len(terms)
  /\ Len(terms) < MaxTerms + 1
  /\ terms' = Append(terms, [colorize |-> terms[h].colorize,
                             want |-> Append(terms[h].want, k)])
  /\ last' = NoCall
  /\ UNCHANGED <<sinkVars, now, wrappers, pc, op, nRecs, initVars, multiVars,
                 deriveVars, sweepVars, pool, bufs, tout, tfr, callVars>>

\* the frame of a Handle call that has taken buffer b
TFrame(h, level, b) ==
  [h |-> h, rec |-> nRecs + 1, level |-> level, buf |-> b, res |-> "none"]

\* Get handing out a buffer that stays in the pool
THandleGetKeep(t, h, level) ==
  /\ pc[t] = "idle"
  /\ h \in 1 .. Len(terms)
  /\ nRecs < TermCalls
  /\ \/ \E b \in pool :
          /\ bufs' = [bufs EXCEPT ![b] = EmptyBuf]
          /\ tfr' = [tfr EXCEPT ![t] = TFrame(h, level, b)]
     \/ /\ Len(bufs) < MaxBufs
        /\ bufs' = Append(bufs, EmptyBuf)
        /\ tfr' = [tfr EXCEPT ![t] = TFrame(h, level, Len(bufs) + 1)]
  /\ nRecs' = nRecs + 1
  /\ pc' = [pc EXCEPT ![t] = "t_encode"]
  /\ last' = NoCall
  /\ UNCHANGED <<sinkVars, now, wrappers, op, initVars, multiVars, deriveVars,
                 sweepVars, terms, pool, tout, callVars>>

\* Handle, lines 909-911: bufPool.Get() takes a buffer out of the pool or
\* makes one with New, then buf.Reset()
THandleGet(t, h, level) ==
  /\ pc[t] = "idle"
  /\ h \in 1 .. Len(terms)
  /\ nRecs < TermCalls
  /\ \/ \E b \in pool :
          /\ pool' = pool \ {b}
          /\ bufs' = [bufs EXCEPT ![b] = EmptyBuf]
          /\ tfr' = [tfr EXCEPT ![t] = TFrame(h, level, b)]
     \/ /\ Len(bufs) < MaxBufs
        /\ bufs' = Append(bufs, EmptyBuf)
        /\ tfr' = [tfr EXCEPT ![t] = TFrame(h, level, Len(bufs) + 1)]
        /\ UNCHANGED pool
  /\ nRecs' = nRecs + 1
  /\ pc' = [pc EXCEPT ![t] = "t_encode"]
  /\ last' = NoCall
  /\ UNCHANGED <<sinkVars, now, wrappers, op, initVars, multiVars, deriveVars,
                 sweepVars, terms, tout, callVars>>

\* Handle returning res: the deferred bufPool.Put(buf) runs (line 911)
THandleReturn(t, res) ==
  /\ pool' = pool \cup {tfr[t].buf}
  /\ tfr' = [tfr EXCEPT ![t] = NoTFrame]
  /\ pc' = [pc EXCEPT ![t] = "idle"]
  /\ last' = Done("THandle", 0, tfr[t].rec, res, 0, 0, FALSE)

\* Handle, lines 913-916: the record is encoded into the buffer by a text
\* handler made for this call; an encoding error is returned at once
THandleEncode(t) ==
  /\ pc[t] = "t_encode"
  /\ \/ /\ bufs' = [bufs EXCEPT ![tfr[t].buf] = Encoded(tfr[t].rec)]
        /\ pc' = [pc EXCEPT ![t] = "t_color"]
        /\ last' = NoCall
        /\ UNCHANGED <<pool, tfr>>
     \/ /\ THandleReturn(t, "err_encode")
        /\ UNCHANGED bufs
  /\ UNCHANGED <<sinkVars, now, wrappers, op, nRecs, initVars, multiVars,
                 deriveVars, sweepVars, terms, tout, callVars>>

\* Handle, lines 918-931: with colorize, the color of the level is written
THandleColor(t) ==
  /\ pc[t] = "t_color"
  /\ tout' = IF terms[tfr[t].h].colorize
               THEN Append(tout, OutWrite(tfr[t], "color", ColorOf(tfr[t].level), EmptyBuf))
               ELSE tout
  /\ pc' = [pc EXCEPT ![t] = "t_body"]
  /\ last' = NoCall
  /\ UNCHANGED <<sinkVars, now, wrappers, op, nRecs, initVars, multiVars,
                 deriveVars, sweepVars, terms, pool, bufs, tfr, callVars>>

\* Handle, lines 932 and 937: h.out.Write(buf.Bytes()), whose error is kept
THandleBody(t) ==
  /\ pc[t] = "t_body"
  /\ tout' = Append(tout, OutWrite(tfr[t], "body", "none", bufs[tfr[t].buf]))
  /\ \E res \in {"ok", "err_write"} : tfr' = [tfr EXCEPT ![t].res = res]
  /\ pc' = [pc EXCEPT ![t] = "t_reset"]
  /\ last' = NoCall
  /\ UNCHANGED <<sinkVars, now, wrappers, op, nRecs, initVars, multiVars,
                 deriveVars, sweepVars, terms, pool, bufs, callVars>>

\* Handle, lines 933-934 and 938: with colorize the reset sequence is
\* written; the body write's error is returned
THandleReset(t) ==
  /\ pc[t] = "t_reset"
  /\ tout' = IF terms[tfr[t].h].colorize
               THEN Append(tout, OutWrite(tfr[t], "reset", colorReset, EmptyBuf))
               ELSE tout
  /\ THandleReturn(t, tfr[t].res)
  /\ UNCHANGED <<sinkVars, now, wrappers, op, nRecs, initVars, multiVars,
                 deriveVars, sweepVars, terms, bufs, callVars>>

\* ------------------------------------------------------ LogConfig.validate
\* the fields of LogConfig that validate reads or writes (lines 447-460);
\* Output and Format range over Outputs and Formats
Dirs == {"", "/var/log/diting"}
Prefixes == {"", "diting"}
RetainInputs == {-1, 0, 7}
LogConfigs == [Output : Outputs, Dir : Dirs, FilenamePrefix : Prefixes,
               RetainDays : RetainInputs, Format : Formats]
\* the zero LogConfig
ZeroConfig == [Output |-> 0, Dir |-> "", FilenamePrefix |-> "",
               RetainDays |-> 0, Format |-> ""]

\* the retention default applied to negative values only
FileDefaultsNegativeOnly(c) ==
  IF c.Output % 2 = 1
    THEN [c EXCEPT !.Dir = IF @ = "" THEN "./logs" ELSE @,
                   !.FilenamePrefix = IF @ = "" THEN "app" ELSE @,
                   !.RetainDays = IF @ < 0 THEN 30 ELSE @]
    ELSE c

\* lines 554-564: the three file fields, touched only when the file bit is set
FileDefaults(c) ==
  IF c.Output % 2 = 1
    THEN [c EXCEPT !.Dir = IF @ = "" THEN "./logs" ELSE @,
                   !.FilenamePrefix = IF @ = "" THEN "app" ELSE @,
                   !.RetainDays = IF @ <= 0 THEN 30 ELSE @]
    ELSE c

\* lines 566-568
FormatDefault(c) == [c EXCEPT !.Format = IF @ = "" THEN "text" ELSE @]

\* validate, lines 547-575: the error returned and *cfg as the call leaves
\* it; the defaults are already written when the format is rejected
validate(c) ==
  IF c.Output = 0
    THEN [err |-> "output target cannot be OutputNone", cfg |-> c]
    ELSE LET filled == FormatDefault(FileDefaults(c)) IN
         IF filled.Format # "text" /\ filled.Format # "json"
           THEN [err |-> "unsupported log format", cfg |-> filled]
           ELSE [err |-> "nil", cfg |-> filled]

\* cfg.validate() called on a configuration
ValidateCall ==
  /\ vret = "none"
  /\ vret' = validate(vcfg).err
  /\ vcfg' = validate(vcfg).cfg
  /\ UNCHANGED <<vin, sinkVars, now, wrappers, pc, op, last, nRecs, initVars,
                 multiVars, deriveVars, sweepVars, termVars, mhEn, execVars,
                 hLevel, histVars, hwVars>>

\* ----------------------------------------------------- ExecutorWithContext
\* DefaultTimeout, in minutes (execute.go line 12)
DefaultTimeout == 20
\* timeouts a caller passes to ExecutorWtihTimeout, in minutes
Timeouts == {1, DefaultTimeout, 60}
\* programs: no name, one that exits 0, one that exits 1, one that is not
\* installed
Programs == {"", "true", "false", "missing"}
NilCtx == [kind |-> "nil", timeout |-> 0, state |-> "live"]
Background == [kind |-> "background", timeout |-> 0, state |-> "live"]
\* context.WithTimeout(context.Background(), t)
WithTimeout(t) == [kind |-> "timeout", timeout |-> t, state |-> "live"]
\* the ctx values a caller can pass: nil, Background, a context with a
\* deadline (possibly passed already), a cancellable one (possibly cancelled)
Ctxs ==
  {NilCtx, Background}
  \cup {[WithTimeout(t) EXCEPT !.state = st] : t \in Timeouts, st \in {"live", "done"}}
  \cup {[kind |-> "cancel", timeout |-> 0, state |-> st] : st \in {"live", "done"}}
\* ctx.Err() of a context that is done
CtxErr(c) == IF c.kind = "timeout" THEN "DeadlineExceeded" ELSE "Canceled"
NoRet == [returned |-> FALSE, out |-> "nil", err |-> "nil"]
NoCtxIn == [via |-> "none", ctx |-> NilCtx]

\* lines 73-84: the error ExecutorWithContext makes of the one cmd.Run gave
WrapErr(e) ==
  IF e = "nil" THEN "nil"
  ELSE IF e = "DeadlineExceeded" THEN "ErrTimeOut"
  ELSE IF e = "Canceled" THEN "ErrCanceled"
  ELSE "ErrExit"

\* the call's parameters as it starts
XEnter(via, c, n) ==
  /\ xpc' = "entered"
  /\ xin' = [via |-> via, ctx |-> c]
  /\ xctx' = c
  /\ xname' = n
  /\ xret' = NoRet
  /\ UNCHANGED <<sinkVars, now, wrappers, pc, op, last, nRecs, initVars,
                 multiVars, deriveVars, sweepVars, termVars, validateVars, mhEn, hLevel,
                 histVars, hwVars>>

\* a caller invoking ExecutorWithContext(ctx, name, args...) directly
XCallWithContext(c, n) ==
  /\ xpc = "idle"
  /\ XEnter("ExecutorWithContext", c, n)

\* Execute, lines 30-35
XExecute(n) ==
  /\ xpc = "idle"
  /\ XEnter("Execute", WithTimeout(DefaultTimeout), n)

\* ExecutorWtihTimeout, lines 38-42
XWithTimeout(t, n) ==
  /\ xpc = "idle"
  /\ XEnter("ExecutorWtihTimeout", WithTimeout(t), n)

XReturn(out, e) ==
  /\ xpc' = "idle"
  /\ xret' = [returned |-> TRUE, out |-> out, err |-> e]

\* lines 61-71 up to the start of the command: the empty name is refused;
\* exec.CommandContext panics on a nil ctx ("nil Context"); cmd.Run returns
\* ctx.Err() when ctx is done already and the lookup error when the program
\* is not found; else the command is started
XStart ==
  /\ xpc = "entered"
  /\ IF xname = ""
       THEN XReturn("nil", "ErrEmptyCommand")
       ELSE IF xctx.kind = "nil" THEN xpc' = "panicked" /\ UNCHANGED xret
       ELSE IF xctx.state = "done" THEN XReturn("buf", WrapErr(CtxErr(xctx)))
       ELSE IF xname = "missing" THEN XReturn("buf", WrapErr("ErrNotFound"))
       ELSE xpc' = "running" /\ UNCHANGED xret
  /\ UNCHANGED <<xin, xctx, xname, sinkVars, now, wrappers, pc, op, last, nRecs,
                 initVars, multiVars, deriveVars, sweepVars, termVars,
                 validateVars, mhEn, hLevel, histVars, hwVars>>

\* the deadline of ctx passing, or its owner cancelling it, during the call
XCtxDone ==
  /\ xpc \in {"entered", "running"}
  /\ xctx.kind \in {"timeout", "cancel"} /\ xctx.state = "live"
  /\ xctx' = [xctx EXCEPT !.state = "done"]
  /\ UNCHANGED <<xpc, xin, xname, xret, sinkVars, now, wrappers, pc, op, last,
                 nRecs, initVars, multiVars, deriveVars, sweepVars, termVars,
                 validateVars, mhEn, hLevel, histVars, hwVars>>

\* lines 71-84, cmd.Run returning: the command's own exit status while ctx
\* is live; once ctx is done the command is killed (an exit error), or it
\* had exited by itself, and a success status is then reported as ctx.Err()
\* or as nil depending on the Go release
XWait ==
  /\ xpc = "running"
  /\ \E e \in IF xctx.state = "live"
                THEN {IF xname = "true" THEN "nil" ELSE "ExitError"}
                ELSE {"ExitError"} \cup
                     (IF xname = "true" THEN {"nil", CtxErr(xctx)} ELSE {}) :
       XReturn("buf", WrapErr(e))
  /\ UNCHANGED <<xin, xctx, xname, sinkVars, now, wrappers, pc, op, last, nRecs,
                 initVars, multiVars, deriveVars, sweepVars, termVars,
                 validateVars, mhEn, hLevel, histVars, hwVars>>

\* ------------------------------------------------ the hardware Collector
\* src/unnamed/part_003.  main (src/cmd/client/main.go, lines 66-72) calls
\* Collect from one goroutine, one call after the other, for as long as the
\* process runs.
ErrChanCap == 5     \* make(chan error, 5), line 52

\* the collectors in the order Collect starts them (lines 54-113)
AllModules == {"system", "memory", "disk", "network", "gpu"}
\* names a caller may pass: the five and one Collect does not know
ModuleNames == AllModules \cup {"cpu"}
\* modules: nil or empty, one name, or two names (repeats included)
ModuleLists ==
  {<<>>} \cup {<<a>> : a \in ModuleNames}
         \cup {<<a, b>> : a \in ModuleNames, b \in ModuleNames}

\* time.Now() of line 32; two calls may read the same instant
Timestamps == {1, 2}

NilErr == "nil"
ErrOf(m) == "err:" \o m          \* the error collect<m>Info returned
\* a *HardwareInfo: Timestamp and one field per collector, 0 is nil
NewInfo(ts) == [Timestamp |-> ts, data |-> [m \in AllModules |-> 0]]
NilInfo == NewInfo(0)
NoCRet == [returned |-> FALSE, info |-> NilInfo, err |-> NilErr]
NoEntry == [lastData |-> NilInfo, cacheSaved |-> NilInfo]

\* lines 39-49
ModuleSetOf(modules) ==
  IF Len(modules) = 0 THEN AllModules
  ELSE {modules[i] : i \in DOMAIN modules}

\* json.Marshal of a HardwareInfo: the fields one after the other
Marshal(i) ==
  <<i.Timestamp, i.data["system"], i.data["memory"], i.data["disk"],
    i.data["network"], i.data["gpu"]>>

\* lines 133-146
shouldUpdate(newInfo) ==
  \/ lastData = NilInfo
  \/ Marshal(lastData) # Marshal(newInfo)

\* lines 30-113: the module set, then wg.Add(1) and a go statement for each
\* requested collector.  Every Add precedes Wait, so the goroutines are all
\* started here; they run in the steps below.
CollectEnter(modules, ts) ==
  /\ cpc \in {"idle", "returned"}
  /\ moduleSet' = ModuleSetOf(modules)
  /\ info' = NewInfo(ts)
  /\ gst' = [m \in AllModules |-> IF m \in moduleSet' THEN "run" ELSE "none"]
  /\ wg' = Cardinality(moduleSet' \cap AllModules)
  /\ errChan' = [buf |-> <<>>, closed |-> FALSE]
  /\ cret' = NoCRet
  /\ cfailed' = {}
  /\ centry' = [lastData |-> lastData, cacheSaved |-> cacheSaved]
  /\ nSaves' = 0
  /\ cpc' = "wait"
  /\ UNCHANGED <<lastData, cacheSaved>>

\* the GPU collector's failure sent like any other
GoCollectFailGpuToo(m) ==
  /\ gst[m] = "run"
  /\ Len(errChan.buf) < ErrChanCap
  /\ errChan' = [errChan EXCEPT !.buf = Append(@, ErrOf(m))]
  /\ cfailed' = cfailed \cup {m}
  /\ wg' = wg - 1
  /\ gst' = [gst EXCEPT ![m] = "done"]
  /\ UNCHANGED <<cpc, moduleSet, info, lastData, cacheSaved, nSaves, cret,
                 centry>>

\* one collector goroutine from its start to the deferred wg.Done() (lines
\* 56-63, ..., 104-112).  Nothing reads info or errChan before Wait returns,
\* so the body and its Done are one step.  The collector fails:
GoCollectFail(m) ==
  /\ gst[m] = "run"
  /\ Len(errChan.buf) < ErrChanCap      \* a send blocks on a full buffer
  /\ errChan' = [errChan EXCEPT
                   !.buf = Append(@, IF m = "gpu" THEN NilErr ELSE ErrOf(m))]
  /\ cfailed' = cfailed \cup {m}
  /\ wg' = wg - 1
  /\ gst' = [gst EXCEPT ![m] = "done"]
  /\ UNCHANGED <<cpc, moduleSet, info, lastData, cacheSaved, nSaves, cret,
                 centry>>

\* or it yields a value
GoCollectOk(m) ==
  /\ gst[m] = "run"
  /\ info' = [info EXCEPT !.data[m] = 1]
  /\ wg' = wg - 1
  /\ gst' = [gst EXCEPT ![m] = "done"]
  /\ UNCHANGED <<cpc, moduleSet, errChan, lastData, cacheSaved, nSaves, cret,
                 cfailed, centry>>

\* lines 115-116
CollectWait ==
  /\ cpc = "wait"
  /\ wg = 0
  /\ errChan' = [errChan EXCEPT !.closed = TRUE]
  /\ cpc' = "drain"
  /\ UNCHANGED <<moduleSet, gst, wg, info, lastData, cacheSaved, nSaves, cret,
                 cfailed, centry>>

\* the positions of the channel's entries the loop of lines 119-123 stops at
Failures(buf) == {i \in DOMAIN buf : buf[i] # NilErr}

FirstOf(S) == CHOOSE i \in S : \A j \in S : i <= j

\* lines 148-154
updateCache(i) ==
  /\ lastData' = i
  /\ cacheSaved' = i
  /\ nSaves' = nSaves + 1

\* lines 119-130
CollectDrain ==
  /\ cpc = "drain"
  /\ LET f == Failures(errChan.buf) IN
       IF f # {}
       THEN /\ cret' = [returned |-> TRUE, info |-> NilInfo,
                        err |-> errChan.buf[FirstOf(f)]]
            /\ errChan' = [errChan EXCEPT
                             !.buf = SubSeq(@, FirstOf(f) + 1, Len(@))]
            /\ UNCHANGED <<lastData, cacheSaved, nSaves>>
       ELSE /\ cret' = [returned |-> TRUE, info |-> info, err |-> NilErr]
            /\ errChan' = [errChan EXCEPT !.buf = <<>>]
            /\ IF shouldUpdate(info) THEN updateCache(info)
               ELSE UNCHANGED <<lastData, cacheSaved, nSaves>>
  /\ cpc' = "returned"
  /\ UNCHANGED <<moduleSet, gst, wg, info, cfailed, centry>>

CollectFrame ==
  UNCHANGED <<sinkVars, now, wrappers, pc, op, last, nRecs, initVars,
              multiVars, deriveVars, sweepVars, termVars, validateVars, mhEn,
              execVars, hLevel, histVars, netVars>>

\* NewCollector (lines 19-28): no data yet, nothing saved
InitCollIdle ==
  /\ cpc = "idle" /\ moduleSet = {} /\ wg = 0
  /\ gst = [m \in AllModules |-> "none"]
  /\ errChan = [buf |-> <<>>, closed |-> FALSE]
  /\ info = NilInfo /\ lastData = NilInfo /\ cacheSaved = NilInfo
  /\ nSaves = 0 /\ cret = NoCRet /\ cfailed = {} /\ centry = NoEntry

\* -------------------------------------------------- collectNetInterfaces
\* src/unnamed/part_004.  A name is the sequence of its characters.
Lo == <<"l", "o">>
Loop == <<"l", "o", "o", "p">>
\* names under /sys/class/net, in the order os.ReadDir sorts them
NetNames ==
  << <<"e", "t", "h", "0">>, <<"e", "t", "h", "1">>, Lo,
     <<"l", "o", "o", "p", "0">> >>
\* what an entry is: a directory, a regular file, a symbolic link, or absent
EntryKinds == {"dir", "file", "link", "absent"}

RECURSIVE ReadDirFrom(_, _)
\* os.ReadDir: the entries that exist, sorted by name
ReadDirFrom(kinds, i) ==
  IF i > Len(NetNames) THEN <<>>
  ELSE (IF kinds[i] = "absent" THEN <<>>
        ELSE << [name |-> NetNames[i], kind |-> kinds[i]] >>)
       \o ReadDirFrom(kinds, i + 1)

\* the states of /sys/class/net: unreadable, or some listing
SysNets ==
  {[err |-> TRUE, entries |-> <<>>]} \cup
  {[err |-> FALSE, entries |-> ReadDirFrom(k, 1)] :
     k \in [1 .. Len(NetNames) -> EntryKinds]}

EntryIsDir(e) == e.kind = "dir"                \* fs.DirEntry.IsDir
StringsHasPrefix(s, p) ==                      \* strings.HasPrefix
  Len(s) >= Len(p) /\ SubSeq(s, 1, Len(p)) = p

NilList == <<>>
NoNRet == [returned |-> FALSE, list |-> NilList, err |-> NilErr]
\* lines 36-42
collectNetInterface(name) == [DeviceName |-> name]
\* the zero model.NetInterface
ZeroNetInterface == [DeviceName |-> <<>>]

\* lines 14-19
NetEnter ==
  /\ npc = "idle"
  /\ IF sysNet.err
     THEN /\ nret' = [returned |-> TRUE, list |-> NilList,
                      err |-> "read directory failed"]
          /\ npc' = "returned"
          /\ UNCHANGED <<dirs, ni, netInterfaces>>
     ELSE /\ dirs' = sysNet.entries
          /\ netInterfaces' = [i \in 1 .. Len(sysNet.entries) |->
                                 ZeroNetInterface]
          /\ ni' = 1
          /\ npc' = "loop"
          /\ UNCHANGED nret
  /\ UNCHANGED sysNet

\* one round of the loop of lines 20-31
NetLoop ==
  /\ npc = "loop"
  /\ ni <= Len(dirs)
  /\ LET dir == dirs[ni] IN
       IF ~EntryIsDir(dir) THEN UNCHANGED netInterfaces
       ELSE IF StringsHasPrefix(dir.name, Lo)
               \/ StringsHasPrefix(dir.name, Loop)
            THEN UNCHANGED netInterfaces
            ELSE netInterfaces' =
                   Append(netInterfaces, collectNetInterface(dir.name))
  /\ ni' = ni + 1
  /\ UNCHANGED <<sysNet, npc, dirs, nret>>

\* line 33
NetReturn ==
  /\ npc = "loop"
  /\ ni > Len(dirs)
  /\ nret' = [returned |-> TRUE, list |-> netInterfaces, err |-> NilErr]
  /\ npc' = "returned"
  /\ UNCHANGED <<sysNet, dirs, ni, netInterfaces>>

NetFrame ==
  UNCHANGED <<sinkVars, now, wrappers, pc, op, last, nRecs, initVars,
              multiVars, deriveVars, sweepVars, termVars, validateVars, mhEn,
              execVars, hLevel, histVars, collVars>>

\* no collectNetInterfaces call yet
InitNetIdle ==
  /\ npc = "idle" /\ dirs = <<>> /\ ni = 0 /\ netInterfaces = <<>>
  /\ nret = NoNRet

InitHwIdle ==
  /\ InitCollIdle /\ InitNetIdle
  /\ sysNet = [err |-> FALSE, entries |-> <<>>]

\* ------------------------------------------------------- initial states
\* package variables before any call (lines 462-467)
InitPackage ==
  /\ loggerOnce = "fresh" /\ onceLogger = 0 /\ onceFileHandler = FALSE
  /\ initErr = "nil" /\ slogDefault = 0 /\ loggers = <<>>
  /\ ifr = [t \in Threads |-> NoFrame]
  /\ results = {} /\ bodyRuns = 0 /\ termsBuilt = 0

InitMultiIdle ==
  /\ mhHandlers = <<>> /\ mhLevel = 0 /\ mhI = 0 /\ mhErrs = <<>>
  /\ mhCalled = <<>> /\ mhRes = NoResult

\* no WithAttrs / WithGroup call on the MultiHandler yet
InitDeriveIdle ==
  mhNew = <<>> /\ mhWI = 0 /\ mhDerived = NoDerived

\* the sweep goroutine not followed, nothing else in the log directory
InitSweepNone ==
  /\ retain = 1 /\ swPc = "none" /\ swList = <<>> /\ swCut = 0
  /\ swFailed = {} /\ swSnap = [d \in Days |-> 0]
  /\ tickC = 0 /\ others = {} /\ swPasses = 0

\* no validate call followed
InitValidateIdle ==
  vin = ZeroConfig /\ vcfg = ZeroConfig /\ vret = "none"

\* no TerminalHandler built
InitTermIdle ==
  /\ terms = <<>> /\ pool = {} /\ bufs = <<>> /\ tout = <<>>
  /\ tfr = [t \in Threads |-> NoTFrame]

\* no command being run
InitExecIdle ==
  /\ xpc = "idle" /\ xin = NoCtxIn /\ xctx = NilCtx /\ xname = ""
  /\ xret = NoRet

InitPureIdle ==
  InitValidateIdle /\ mhEn = NoEnabled /\ InitExecIdle /\ InitHwIdle

\* the zero slog.Level in cfg, the Once's function not yet run
InitCallsIdle ==
  InitPureIdle /\ hLevel = LevelInfo /\ bodyVia = "none" /\ askedOutput = 0

InitThreads ==
  /\ pc = [t \in Threads |-> "idle"]
  /\ op = [t \in Threads |-> IdleOp]
  /\ last = NoCall /\ nRecs = 0 /\ wrappers = <<>>

\* the sink as NewFileHandler returns it (lines 641-660) on day Today, in an
\* empty log directory; the sweep goroutine finds nothing to remove there
\* and is not followed (SpecSweep follows it)
InitFile ==
  /\ mu = 0 /\ curDate = Today /\ curFile = 1 /\ curInner = NewInner(1)
  /\ cleanTicker = "running" /\ cleanDone = "open" /\ closeOnce = "fresh"
  /\ fds = <<[day |-> Today, ino |-> 1, open |-> TRUE, closes |-> 0]>>
  /\ disk = << <<>> >>
  /\ dirent = [d \in Days |-> IF d = Today THEN 1 ELSE 0]
  /\ now = Today
  /\ chanCloses = 0 /\ panicked = FALSE
  /\ sinksBuilt = 1 /\ sweepers = 1
  /\ InitThreads /\ InitPackage /\ InitMultiIdle
  /\ InitDeriveIdle /\ InitSweepNone /\ InitTermIdle /\ InitCallsIdle

\* the process before InitLogger: no sink, an empty log directory
InitNoSink ==
  /\ mu = 0 /\ curDate = 0 /\ curFile = 0 /\ curInner = NilInner
  /\ cleanTicker = "nil" /\ cleanDone = "nil" /\ closeOnce = "fresh"
  /\ fds = <<>> /\ disk = <<>>
  /\ dirent = [d \in Days |-> 0]
  /\ now = Today
  /\ chanCloses = 0 /\ panicked = FALSE
  /\ sinksBuilt = 0 /\ sweepers = 0

InitSingleton ==
  /\ InitNoSink /\ InitThreads /\ InitPackage /\ InitMultiIdle
  /\ InitDeriveIdle /\ InitSweepNone /\ InitTermIdle /\ InitCallsIdle

NextSingleton ==
  \/ \E t \in Threads, c \in Configs : InitCall(t, c)
  \/ \E t \in Threads : IValidate(t)
  \/ \E t \in Threads : IFile(t)
  \/ \E t \in Threads : ITerm(t)
  \/ \E t \in Threads : IBuild(t)
  \/ \E t \in Threads : ISetDefault(t)
  \/ \E t \in Threads : IReturn(t)
  \/ \E t \in Threads : GetCall(t)
  \/ \E t \in Threads : GetInit(t)
  \/ \E t \in Threads : GetTail(t)
  \/ \E t \in Threads : PkgClose(t)
  \/ \E t \in Threads : CloseLock(t)
  \/ \E t \in Threads : CloseRelease(t)

SpecSingleton == InitSingleton /\ [][NextSingleton]_vars

\* NewMultiHandler (lines 581-583) over any members, no call made yet
InitMulti ==
  /\ mhHandlers \in UNION {[1 .. n -> Members] : n \in 0 .. MaxMembers}
  /\ mhLevel = 0 /\ mhI = 0 /\ mhErrs = <<>> /\ mhCalled = <<>>
  /\ mhRes = NoResult
  /\ InitNoSink /\ InitThreads /\ InitPackage
  /\ InitDeriveIdle /\ InitSweepNone /\ InitTermIdle /\ InitCallsIdle

NextMulti ==
  \/ \E level \in Levels : MHCall(level)
  \/ MHStep
  \/ MHReturn
  \/ \E k \in WithKinds : MHWithCall(k)
  \/ MHWithStep
  \/ MHWithReturn

SpecMulti == InitMulti /\ [][NextMulti]_vars

NextFile ==
  \/ \E t \in Threads, d \in Days : HandleLock(t, d)
  \/ \E t \in Threads, d \in Days, w \in 1 .. MaxWrappers : WrapperHandleLock(t, w, d)
  \/ \E t \in Threads : RotateIfNeededClose(t)
  \/ \E t \in Threads : SlogWarn(t)
  \/ \E t \in Threads : RotateIfNeededOpen(t)
  \/ \E t \in Threads : HandleWrite(t)
  \/ \E t \in Threads : WrapperWrite(t)
  \/ \E t \in Threads : SinkWith(t)
  \/ \E t \in Threads, w \in 1 .. MaxWrappers : WrapperWith(t, w)
  \/ \E t \in Threads : CloseOnceDo(t)
  \/ \E t \in Threads : CloseLock(t)
  \/ \E t \in Threads : CloseRelease(t)

SpecFile == InitFile /\ [][NextFile]_vars

\* the loggers slog.Default() can be while the sink is in use: none built
\* (the sink was made by NewFileHandler alone), or the one InitLogger built
\* and installed for OutputFile or for OutputBoth (lines 503-510)
DefaultLoggers ==
  { <<>>,
    <<[multi |-> FALSE, handlers |-> <<"file">>]>>,
    <<[multi |-> TRUE, handlers |-> <<"file", "term">>]>> }

\* the sink on day Today as in InitFile, after a successful InitLogger
\* (lines 470-518) or after a bare NewFileHandler, with cfg.Level Info or
\* Error
InitDefault ==
  /\ mu = 0 /\ curDate = Today /\ curFile = 1 /\ curInner = NewInner(1)
  /\ cleanTicker = "running" /\ cleanDone = "open" /\ closeOnce = "fresh"
  /\ fds = <<[day |-> Today, ino |-> 1, open |-> TRUE, closes |-> 0]>>
  /\ disk = << <<>> >>
  /\ dirent = [d \in Days |-> IF d = Today THEN 1 ELSE 0]
  /\ now = Today
  /\ chanCloses = 0 /\ panicked = FALSE
  /\ sinksBuilt = 1 /\ sweepers = 1
  /\ loggers \in DefaultLoggers
  /\ onceLogger = Len(loggers) /\ slogDefault = Len(loggers)
  /\ onceFileHandler = (loggers # <<>>)
  /\ loggerOnce = (IF loggers = <<>> THEN "fresh" ELSE "done")
  /\ initErr = "nil"
  /\ ifr = [t \in Threads |-> NoFrame]
  /\ results = (IF loggers = <<>> THEN {} ELSE {[logger |-> 1, err |-> "nil"]})
  /\ bodyRuns = Len(loggers)
  /\ bodyVia = (IF loggers = <<>> THEN "none" ELSE "Init")
  /\ askedOutput = (IF loggers = <<>> THEN 0 ELSE IF loggers[1].multi THEN 3 ELSE 1)
  /\ termsBuilt = (IF loggers # <<>> /\ loggers[1].multi THEN 1 ELSE 0)
  /\ hLevel \in {LevelInfo, LevelError}
  /\ InitThreads /\ InitMultiIdle /\ InitDeriveIdle /\ InitSweepNone
  /\ InitTermIdle /\ InitPureIdle

NextDefault ==
  \/ \E t \in Threads, d \in Days : HandleLock(t, d)
  \/ \E t \in Threads : RotateIfNeededClose(t)
  \/ \E t \in Threads : SlogWarn(t)
  \/ \E t \in Threads : RotateIfNeededOpen(t)
  \/ \E t \in Threads : HandleWrite(t)
  \/ \E t \in Threads : CloseOnceDo(t)
  \/ \E t \in Threads : CloseLock(t)
  \/ \E t \in Threads : CloseRelease(t)

SpecDefault == InitDefault /\ [][NextDefault]_vars

\* the steps of goroutine t inside a Handle or Close call
Running(t) ==
  \/ RotateIfNeededClose(t) \/ SlogWarn(t) \/ RotateIfNeededOpen(t)
  \/ HandleWrite(t) \/ CloseLock(t) \/ CloseRelease(t)

\* the Go scheduler runs a goroutine that can take its next step
SpecDefaultFair == SpecDefault /\ \A t \in Threads : WF_vars(Running(t))

\* the sweep goroutine is watched over the day of construction and the next
SweepDays == Today .. (Today + 1)

\* the sink as NewFileHandler returns it on day Today (lines 641-660) with
\* the sweep goroutine started and not yet run, in a log directory that
\* already holds a day file for each earlier day and the other entries
InitSweep ==
  /\ mu = 0 /\ curDate = Today /\ curFile = 1 /\ curInner = NewInner(1)
  /\ cleanTicker = "running" /\ cleanDone = "open" /\ closeOnce = "fresh"
  /\ fds = <<[day |-> Today, ino |-> 1, open |-> TRUE, closes |-> 0]>>
  /\ disk = [i \in 1 .. (NOld + 1) |-> <<>>]
  /\ dirent = [d \in OldDays \cup SweepDays |->
                 IF d = Today THEN 1 ELSE IF d \in OldDays THEN 1 - d ELSE 0]
  /\ now = Today
  /\ chanCloses = 0 /\ panicked = FALSE
  /\ sinksBuilt = 1 /\ sweepers = 1
  /\ retain \in 0 .. MaxRetain
  /\ swPc = "clean" /\ swList = <<>> /\ swCut = 0 /\ swFailed = {}
  /\ swSnap = [d \in OldDays \cup SweepDays |-> 0] /\ tickC = 0 /\ others = OtherEntries /\ swPasses = 0
  /\ InitThreads /\ InitPackage /\ InitMultiIdle /\ InitDeriveIdle /\ InitTermIdle
  /\ InitCallsIdle

\* the goroutine that uses the sink while the sweep goroutine runs; it
\* hands the sink one record
Callers == {1}
SweepRecs == Cardinality(Callers)

NextSweep ==
  \/ \E t \in Callers, d \in SweepDays : nRecs < SweepRecs /\ HandleLock(t, d)
  \/ \E t \in Callers : RotateIfNeededClose(t)
  \/ \E t \in Callers : SlogWarn(t)
  \/ \E t \in Callers : RotateIfNeededOpen(t)
  \/ \E t \in Callers : HandleWrite(t)
  \/ \E t \in Callers : CloseOnceDo(t)
  \/ \E t \in Callers : CloseLock(t)
  \/ \E t \in Callers : CloseRelease(t)
  \/ (now + 1 \in SweepDays /\ Tick)
  \/ CleanOldLogsBegin
  \/ CleanOldLogsEntry
  \/ CleanOldLogsReturn
  \/ LoopSelect

SpecSweep == InitSweep /\ [][NextSweep]_vars

\* the Go scheduler runs a runnable goroutine: the sweep goroutine is not
\* starved of its next step
SpecSweepFair == SpecSweep /\ WF_vars(Sweeper)

\* NewTerminalHandler (lines 877-893): colorize set, an empty pool
InitTerm ==
  /\ terms = <<[colorize |-> TRUE, want |-> <<>>]>>
  /\ pool = {} /\ bufs = <<>> /\ tout = <<>>
  /\ tfr = [t \in Threads |-> NoTFrame]
  /\ InitNoSink /\ InitThreads /\ InitPackage /\ InitMultiIdle
  /\ InitDeriveIdle /\ InitSweepNone /\ InitCallsIdle

NextTerm ==
  \/ \E h \in 1 .. (MaxTerms + 1), k \in WithKinds : TermWith(h, k)
  \/ \E t \in Threads, h \in 1 .. (MaxTerms + 1), level \in TermLevels :
       THandleGet(t, h, level)
  \/ \E t \in Threads : THandleEncode(t)
  \/ \E t \in Threads : THandleColor(t)
  \/ \E t \in Threads : THandleBody(t)
  \/ \E t \in Threads : THandleReset(t)

SpecTerm == InitTerm /\ [][NextTerm]_vars

\* a MultiHandler over any members, Enabled asked at any level
NextEnabled == \E level \in Levels : MHEnabledCall(level)

SpecEnabled == InitMulti /\ [][NextEnabled]_vars

\* a configuration as a caller may fill it, validate not yet called
InitValidate ==
  /\ vin \in LogConfigs /\ vcfg = vin /\ vret = "none"
  /\ InitNoSink /\ InitThreads /\ InitPackage /\ InitMultiIdle
  /\ InitDeriveIdle /\ InitSweepNone /\ InitTermIdle /\ mhEn = NoEnabled
  /\ InitExecIdle /\ hLevel = LevelInfo /\ bodyVia = "none" /\ askedOutput = 0
  /\ InitHwIdle

NextValidate == ValidateCall

SpecValidate == InitValidate /\ [][NextValidate]_vars

\* the executor package: one call at a time through any of its entry points
NextExec ==
  \/ \E c \in Ctxs, n \in Programs : XCallWithContext(c, n)
  \/ \E n \in Programs : XExecute(n)
  \/ \E t \in Timeouts, n \in Programs : XWithTimeout(t, n)
  \/ XStart
  \/ XCtxDone
  \/ XWait

SpecExec == InitSingleton /\ [][NextExec]_vars

\* the Collector as main drives it: Collect after Collect
NextCollect ==
  \/ \E modules \in ModuleLists, ts \in Timestamps :
       CollectEnter(modules, ts) /\ CollectFrame
  \/ \E m \in AllModules : GoCollectFail(m) /\ CollectFrame
  \/ \E m \in AllModules : GoCollectOk(m) /\ CollectFrame
  \/ CollectWait /\ CollectFrame
  \/ CollectDrain /\ CollectFrame

SpecCollect == InitSingleton /\ [][NextCollect]_vars

\* one collectNetInterfaces call over any state of /sys/class/net
InitNet ==
  /\ sysNet \in SysNets /\ InitNetIdle /\ InitCollIdle
  /\ InitNoSink /\ InitThreads /\ InitPackage /\ InitMultiIdle
  /\ InitDeriveIdle /\ InitSweepNone /\ InitTermIdle /\ InitValidateIdle
  /\ mhEn = NoEnabled /\ InitExecIdle
  /\ hLevel = LevelInfo /\ bodyVia = "none" /\ askedOutput = 0

NextNet ==
  \/ NetEnter /\ NetFrame
  \/ NetLoop /\ NetFrame
  \/ NetReturn /\ NetFrame

SpecNet == InitNet /\ [][NextNet]_vars

\* ------------------------------------------------------------- claims
\* the entries of prefix-d.log, empty when the file does not exist
FileOf(d) == IF dirent[d] = 0 THEN <<>> ELSE disk[dirent[d]]
HasEntry(c, r, d, b) ==
  \E k \in DOMAIN c : c[k] = [rec |-> r, day |-> d, bound |-> b]
Holds(i, r) == \E k \in DOMAIN disk[i] : disk[i][k].rec = r
InSection(t) == pc[t] \in {"rotate", "warn", "clear", "open", "write", "c_release"}

\* C1: a Handle through a wrapper (a WithAttrs/WithGroup result) for a
\* record of day D2, following a successful Handle through the same wrapper
\* for a different day D1, succeeds, and the two day files each hold their
\* record with the wrapper's bound attributes.  (The sink was not closed
\* and the operating system refused nothing.)
C1_DecoratedHandlerRotates ==
  ( /\ last.kind = "WHandle"
    /\ last.prev # 0 /\ last.prev # last.day
    /\ closeOnce = "fresh"
    /\ last.res \notin {"err_open", "err_io"} )
  => /\ last.res = "ok"
     /\ dirent[last.day] # 0 /\ dirent[last.prev] # 0
     /\ dirent[last.day] # dirent[last.prev]
     /\ HasEntry(FileOf(last.day), last.rec, last.day, wrappers[last.w].inner.bound)
     /\ \E k \in DOMAIN FileOf(last.prev) :
          /\ FileOf(last.prev)[k].day = last.prev
          /\ FileOf(last.prev)[k].bound = wrappers[last.w].inner.bound

\* C2: once Close has returned the sink stays closed: no file handle, no
\* encoder, no open file, and every Handle that completes returns the
\* "file handler not initialized" error.
C2_HandleAfterCloseFails ==
  closeOnce = "done"
  => /\ curFile = 0 /\ curInner = NilInner
     /\ \A i \in DOMAIN fds : ~fds[i].open
     /\ (last.kind \in {"Handle", "WHandle"} => last.res = "err_uninit")

\* C7: when DailyFileHandler.Handle has just returned success for a record
\* of day D, curDate is D, the open file is prefix-D.log, the record is the
\* last entry of that file and occurs in no other file.
C7_HandleWritesRecordsDay ==
  (last.kind = "Handle" /\ last.res = "ok")
  => /\ curDate = last.day
     /\ curFile # 0 /\ fds[curFile].open /\ fds[curFile].day = last.day
     /\ dirent[last.day] = fds[curFile].ino
     /\ LET c == FileOf(last.day) IN
          /\ c # <<>>
          /\ c[Len(c)] = [rec |-> last.rec, day |-> last.day, bound |-> 0]
          /\ \A k \in 1 .. Len(c) - 1 : c[k].rec # last.rec
     /\ \A i \in DOMAIN disk : i # dirent[last.day] => ~Holds(i, last.rec)
\* two records were handled, the second on an earlier day than the first
C7_Witness ==
  /\ last.kind = "Handle" /\ last.res = "ok" /\ last.day = 1
  /\ \E k \in DOMAIN FileOf(2) : FileOf(2)[k].rec < last.rec /\ FileOf(2)[k].bound = 0

\* C8: whenever the sink's lock is free, file handle and encoder are both
\* nil or both set, and when set the handle is open on prefix-curDate.log
\* and the encoder writes to that handle.
C8_FileAndEncoderAgree ==
  mu = 0
  => /\ (curFile = 0) <=> (curInner = NilInner)
     /\ curFile # 0 =>
          /\ fds[curFile].open
          /\ curDate # 0 /\ fds[curFile].day = curDate
          /\ dirent[curDate] = fds[curFile].ino
          /\ curInner.file = curFile
\* a Handle whose rotation could not open the new file has returned
C8_Witness ==
  /\ mu = 0 /\ last.kind = "Handle" /\ last.res = "err_open"
  /\ curFile = 0 /\ curInner = NilInner
  /\ wrappers # <<>>

\* C9: at most one goroutine is inside the rotate-then-write section
\* (Handle, a wrapper's Handle, the release step of Close), and a step that
\* changes curDate, curFile or curInner is a step of the goroutine that
\* holds the lock and is inside the section.
C9_OneWriterAtATime ==
  /\ [](Cardinality({t \in Threads : InSection(t)}) <= 1)
  /\ [][ hVars' # hVars =>
           \E t \in Threads : InSection(t) /\ mu = t /\ pc'[t] # pc[t] ]_vars
\* a Handle through a wrapper of nesting depth 2 is rotating while a Close
\* waits for the lock
C9_Witness ==
  \E t, u \in Threads :
    /\ pc[t] = "clear" /\ op[t].kind = "WHandle"
    /\ wrappers[op[t].w].inner.bound = 2
    /\ pc[u] = "c_lock"

\* C10: over any number of Close calls the stop channel is closed exactly
\* once, no file handle is closed twice, nothing panics, and a call that is
\* not the first returns nil and changes nothing.
C10_CloseIdempotent ==
  /\ [](/\ ~panicked
        /\ chanCloses <= 1
        /\ (closeOnce # "fresh" => chanCloses = 1 /\ cleanDone = "closed")
        /\ \A i \in DOMAIN fds : fds[i].closes <= 1
        /\ (last.kind = "Close" /\ ~last.first => last.res = "nil"))
  /\ [][ (last'.kind = "Close" /\ ~last'.first)
          => UNCHANGED <<sinkVars, wrappers, pc, op, nRecs>> ]_vars
\* a second Close has returned after the first one released the file
C10_Witness ==
  /\ last.kind = "Close" /\ ~last.first
  /\ closeOnce = "done" /\ chanCloses = 1
  /\ \E i \in DOMAIN fds : fds[i].closes = 1

\* the members h.Enabled(ctx, r.Level) accepts, and those of them whose
\* Handle returns an error
EnabledMembers == {i \in DOMAIN mhHandlers : MemberEnabled(mhHandlers[i], mhLevel)}
FailingMembers == {i \in EnabledMembers : mhHandlers[i].fails}
SeqRange(q) == {q[k] : k \in DOMAIN q}

\* C3: when MultiHandler.Handle returns, Handle was invoked on exactly the
\* members enabled for the record's level, each once and in member order,
\* also after a member error; the result is nil iff no enabled member
\* fails, and otherwise holds the error of every enabled failing member and
\* nothing else.
C3_FanOutDeliversToAll ==
  mhRes.returned
  => /\ SeqRange(mhCalled) = EnabledMembers
     /\ Len(mhCalled) = Cardinality(EnabledMembers)
     /\ \A j, k \in DOMAIN mhCalled : j < k => mhCalled[j] < mhCalled[k]
     /\ (mhRes.errs = <<>>) <=> (FailingMembers = {})
     /\ SeqRange(mhRes.errs) = FailingMembers
     /\ Len(mhRes.errs) = Cardinality(FailingMembers)
\* a failing member came first, the succeeding member after it was still
\* called, and the call reported an error
C3_Witness ==
  /\ mhRes.returned /\ Len(mhHandlers) = 2
  /\ mhHandlers[1].fails /\ ~mhHandlers[2].fails
  /\ mhCalled = <<1, 2>> /\ mhRes.errs = <<1>>

\* C4: over any InitLogger calls, concurrent or repeated, with any
\* configurations, the Once's function runs at most once, at most one file
\* sink and one sweep goroutine are created, and all calls return one and the
\* same result: a logger with a nil error, or an error with a nil logger.
C4_InitOnce ==
  /\ bodyRuns <= 1 /\ sinksBuilt <= 1 /\ sweepers <= 1
  /\ Len(loggers) <= 1
  /\ Cardinality(results) <= 1
  /\ \A r \in results :
       \/ r.logger # 0 /\ r.err = "nil" /\ r.logger = onceLogger
       \/ r.logger = 0 /\ r.err # "nil" /\ r.err = initErr
\* a call that did not run the function has returned the file+terminal
\* logger the first call built
C4_Witness ==
  /\ last.kind = "Init" /\ ~last.first /\ last.res = "nil" /\ last.logger = 1
  /\ loggers[1].multi /\ sinksBuilt = 1 /\ sweepers = 1
  /\ bodyRuns = 1

\* C5: when the Once's function has failed, no logger is installed as the
\* default, no logger, sink, terminal handler or sweep goroutine exists, no
\* file is open, the function is never run again and every InitLogger call
\* returns that one error.
C5_FailedInitIsFinal ==
  (loggerOnce = "done" /\ initErr # "nil")
  => /\ slogDefault = 0 /\ onceLogger = 0 /\ loggers = <<>>
     /\ ~onceFileHandler /\ sinksBuilt = 0 /\ sweepers = 0 /\ termsBuilt = 0
     /\ curFile = 0 /\ curInner = NilInner /\ \A i \in DOMAIN fds : ~fds[i].open
     /\ bodyRuns = 1
     /\ results \subseteq {[logger |-> 0, err |-> initErr]}
     /\ (last.kind = "Init" => last.res = initErr /\ last.logger = 0)
\* the file sink could not be built, and a later InitLogger call has
\* returned that error
C5_Witness ==
  /\ last.kind = "Init" /\ ~last.first
  /\ last.res = "create file handler failed: open log file failed"
  /\ initErr = last.res /\ bodyRuns = 1

\* C6: every GetLogger call returns a logger: onceLogger whenever it is set
\* (so after a successful InitLogger, before or after Close), and the bare
\* default logger after a failed InitLogger.
C6_GetLoggerNeverNil ==
  last.kind = "Get"
  => /\ last.res \in {"logger", "bare"}
     /\ (last.res = "logger" => last.logger # 0 /\ last.logger = onceLogger)
     /\ (last.res = "bare" => last.logger = 0 /\ onceLogger = 0)
     /\ (loggerOnce = "done" /\ initErr = "nil" => last.res = "logger")
     /\ (loggerOnce = "done" /\ initErr # "nil" => last.res = "bare")
\* GetLogger has fallen back to slog.Default() after a failed InitLogger
C6_Witness ==
  /\ last.kind = "Get" /\ last.res = "bare"
  /\ loggerOnce = "done" /\ initErr # "nil"

\* C11: once DailyFileHandler.Close has returned, the sweep goroutine has
\* terminated, so no directory scan or deletion of the sweep is running or
\* starts afterwards.
C11_CloseJoinsSweeper == closeOnce = "done" => swPc = "exited"

\* C12: once Close has been called the sweep goroutine eventually leaves its
\* loop (the scheduler being fair to it) and the ticker is stopped; the stop
\* channel is closed exactly once; the goroutine leaves only on the stop
\* signal, stays gone, and there is one per constructed sink.
C12_SweeperStops ==
  /\ [](closeOnce # "fresh" => cleanTicker = "stopped" /\ chanCloses = 1)
  /\ [](chanCloses <= 1 /\ ~panicked /\ sweepers = sinksBuilt)
  /\ [](swPc = "exited" => cleanDone = "closed")
  /\ [][swPc = "exited" => swPc' = "exited"]_vars
  /\ (closeOnce # "fresh") ~> (swPc = "exited")
\* the goroutine has left after a Close that came while it was sweeping again
C12_Witness ==
  swPc = "exited" /\ closeOnce = "done" /\ swPasses >= 2 /\ tickC = 0

\* a day file dated d is strictly older than the cutoff cut (half days)
StrictlyOlder(d, cut) == 2 * d < cut
\* a cleanOldLogs call over a retention window returns with this step
SweepCompletes == swPc \in {"clean", "scan"} /\ swPc' = "select" /\ retain > 0
\* the days whose removal failed in the pass in progress
FailedNow == {f.day : f \in {g \in swFailed : g.pass = swPasses}}
\* the step is one of the sweep goroutine
SweeperStep == swPc' # swPc \/ swList' # swList

\* C13: for a retention window R > 0, when cleanOldLogs returns and none of
\* its removals failed, the directory holds no day file dated strictly
\* before now minus R days (for a call that never computed a cutoff: before
\* midnight of today minus R days).
C13_SweepLeavesNoExpired ==
  [][ (SweepCompletes /\ FailedNow = {}) =>
        \A d \in DOMAIN dirent :
          dirent'[d] # 0 =>
            ~StrictlyOlder(d, IF swPc = "scan" THEN swCut ELSE Cutoff(now, 0)) ]_vars

\* C13 as the code has it: when cleanOldLogs has read the directory and
\* returns with no removal failed, every day file of its listing dated
\* strictly before the cutoff is gone (a file of that name found afterwards
\* was created after the listing was read).
C13_ListedExpiredAreGone ==
  [][ (swPc = "scan" /\ swPc' = "select" /\ FailedNow = {}) =>
        \A d \in DOMAIN dirent :
          (swSnap[d] # 0 /\ StrictlyOlder(d, swCut)) => dirent'[d] # swSnap[d] ]_vars
\* a pass without failure has returned after removing every old day file
C13_Witness ==
  /\ swPc = "select" /\ swPasses = 1 /\ swFailed = {} /\ retain > 0
  /\ \A d \in OldDays : swSnap[d] # 0 /\ dirent[d] = 0

C16_DerivedMultiHandler ==
  /\ [](mhDerived.made =>
          /\ Len(mhDerived.handlers) = Len(mhHandlers)
          /\ \A i \in 1 .. Len(mhHandlers) :
               mhDerived.handlers[i] =
                 [min |-> mhHandlers[i].min, fails |-> mhHandlers[i].fails,
                  bound |-> mhHandlers[i].bound \o <<mhDerived.kind>>])
  /\ [][mhHandlers' = mhHandlers]_vars
\* a derived MultiHandler over two different members
C16_Witness ==
  /\ mhDerived.made /\ mhDerived.kind = "group"
  /\ Len(mhDerived.handlers) = 2
  /\ mhHandlers[1] # mhHandlers[2]

\* the Write calls made on h.out for record r, in order
WritesOf(r) == SelectSeq(tout, LAMBDA e : e.rec = r)
\* record r's Handle call is still running
InHandle(r) == \E t \in Threads : tfr[t].rec = r

\* C17: a record handled through a TerminalHandler derived by WithAttrs /
\* WithGroup is written with the attributes and groups bound along the
\* derivation.
C17_DerivedTerminalWritesBound ==
  \A i \in DOMAIN tout :
    tout[i].part = "body" => tout[i].body.bound = terms[tout[i].h].want

\* C18: the Write calls of one TerminalHandler.Handle call are, in order,
\* one color prefix, the encoded record, one reset sequence; the prefix is
\* the error color for a level >= Error, the warning color for Warn, the
\* informational color for Info and the default color for any other level,
\* four different colors; a call whose encoding fails writes nothing and
\* returns the error.
C18_ColorBodyReset ==
  /\ Cardinality({colorRed, colorYellow, colorBlue, colorGray}) = 4
  /\ \A r \in 1 .. nRecs :
       LET w == WritesOf(r) IN
         /\ Len(w) <= 3
         /\ \A i \in DOMAIN w : w[i].part = <<"color", "body", "reset">>[i]
         /\ Len(w) >= 1 =>
              w[1].color = IF w[1].level >= 8 THEN colorRed
                           ELSE IF w[1].level = 4 THEN colorYellow
                           ELSE IF w[1].level = 0 THEN colorBlue
                           ELSE colorGray
         /\ Len(w) >= 2 => w[2].body # EmptyBuf
         /\ Len(w) = 3 => w[3].color = colorReset
         /\ ~InHandle(r) => Len(w) \in {0, 3}
  /\ last.kind = "THandle" =>
       IF last.res = "err_encode" THEN WritesOf(last.rec) = <<>>
       ELSE Len(WritesOf(last.rec)) = 3
\* a call for a record between Warn and Error has returned after its three
\* writes, the other record's encoding having failed
C18_Witness ==
  /\ last.kind = "THandle" /\ last.res = "ok"
  /\ WritesOf(last.rec)[1].level = 6
  /\ nRecs = 2 /\ Len(tout) = 3 /\ \A t \in Threads : pc[t] = "idle"

\* C19: no two Handle calls hold the same buffer, a buffer a call holds is
\* not in the pool, and from its encoding to its write the buffer holds the
\* call's own record, which is what the call writes.
C19_BufferHeldByOneCall ==
  /\ \A t1, t2 \in Threads :
       (t1 # t2 /\ tfr[t1].buf # 0) => tfr[t1].buf # tfr[t2].buf
  /\ \A t \in Threads :
       /\ tfr[t].buf # 0 => tfr[t].buf \notin pool
       /\ pc[t] \in {"t_color", "t_body"} => bufs[tfr[t].buf].rec = tfr[t].rec
  /\ \A i \in DOMAIN tout : tout[i].part = "body" => tout[i].body.rec = tout[i].rec
\* two calls in flight, one on a derived handler, each with its own buffer
C19_Witness ==
  /\ pc[1] = "t_body" /\ pc[2] = "t_color"
  /\ tfr[1].h = 1 /\ tfr[2].h = 2
  /\ tfr[1].buf # tfr[2].buf

\* C20: in InitLogger the file sink is built before the terminal sink; the
\* logger built for a configuration with one output bit has that sink itself
\* as its handler, for both bits a MultiHandler over [file sink, terminal
\* sink]; and slog's default is set to it only once every requested sink
\* has been built.
C20_SinkOrderAndComposition ==
  /\ \A t \in Threads :
       /\ pc[t] \in {"i_validate", "i_file"} =>
            (sinksBuilt = 0 /\ termsBuilt = 0 /\ ifr[t].handlers = <<>>)
       /\ pc[t] = "i_term" =>
            /\ termsBuilt = 0
            /\ ifr[t].handlers = IF ifr[t].cfg.Output \in {1, 3} THEN <<"file">> ELSE <<>>
            /\ sinksBuilt = Len(ifr[t].handlers)
       /\ pc[t] \in {"i_validate", "i_file", "i_term", "i_build", "i_setdefault"} =>
            slogDefault = 0
       /\ (pc[t] = "i_setdefault" \/ (pc[t] = "i_return" /\ initErr = "nil")) =>
            LET h == loggers[onceLogger] IN
              /\ ifr[t].cfg.Output \in {1, 2, 3}
              /\ ifr[t].cfg.Output = 1 => (~h.multi /\ h.handlers = <<"file">>)
              /\ ifr[t].cfg.Output = 2 => (~h.multi /\ h.handlers = <<"term">>)
              /\ ifr[t].cfg.Output = 3 => (h.multi /\ h.handlers = <<"file", "term">>)
  /\ slogDefault # 0 =>
       /\ slogDefault = onceLogger /\ loggerOnce = "done" /\ initErr = "nil"
       /\ \A i \in DOMAIN loggers[slogDefault].handlers :
            IF loggers[slogDefault].handlers[i] = "file"
              THEN sinksBuilt = 1 /\ onceFileHandler
              ELSE termsBuilt = 1
\* InitLogger has returned a logger over both sinks, installed as default
C20_Witness ==
  /\ last.kind = "Init" /\ last.res = "nil" /\ last.first
  /\ slogDefault = last.logger
  /\ loggers[last.logger] = [multi |-> TRUE, handlers |-> <<"file", "term">>]

\* C21: validate returns an error when Output is OutputNone or Format is
\* neither blank nor text nor json; when it returns nil, Output is the given
\* one and not OutputNone, Format is text or json (text for a blank one),
\* and with the file bit set Dir, FilenamePrefix are non-empty and
\* RetainDays > 0, the defaults "./logs", "app", 30 standing exactly where
\* the given value was blank or not positive; without the file bit the three
\* stay as given.
C21_ValidateContract ==
  vret # "none"
  => /\ (vin.Output = 0 \/ vin.Format \notin {"", "text", "json"}) => vret # "nil"
     /\ vret = "nil" =>
          /\ vcfg.Output = vin.Output /\ vcfg.Output # 0
          /\ vcfg.Format \in {"text", "json"}
          /\ vcfg.Format = (IF vin.Format = "" THEN "text" ELSE vin.Format)
          /\ vcfg.Output % 2 = 1 =>
               /\ vcfg.Dir # "" /\ vcfg.FilenamePrefix # "" /\ vcfg.RetainDays > 0
               /\ vcfg.Dir = (IF vin.Dir = "" THEN "./logs" ELSE vin.Dir)
               /\ vcfg.FilenamePrefix =
                    (IF vin.FilenamePrefix = "" THEN "app" ELSE vin.FilenamePrefix)
               /\ vcfg.RetainDays =
                    (IF vin.RetainDays > 0 THEN vin.RetainDays ELSE 30)
          /\ vcfg.Output % 2 = 0 =>
               /\ vcfg.Dir = vin.Dir /\ vcfg.FilenamePrefix = vin.FilenamePrefix
               /\ vcfg.RetainDays = vin.RetainDays
\* validate accepted a file-and-terminal configuration with a zero retention
\* and a supplied directory
C21_Witness ==
  /\ vret = "nil" /\ vin.Output = 3 /\ vin.RetainDays = 0 /\ vcfg.RetainDays = 30
  /\ vin.Dir # "" /\ vcfg.Dir = vin.Dir /\ vin.Format = "" /\ vcfg.Format = "text"

\* q is an initial segment of r
IsPrefix(q, r) ==
  Len(q) <= Len(r) /\ \A k \in 1 .. Len(q) : q[k] = r[k]

\* C22: no step (Handle, a wrapper's Handle, rotation away from a day and
\* back, WithAttrs/WithGroup, Close) shortens or rewrites a file: what a
\* file holds before the step is an initial segment of what it holds after;
\* and a day file's directory entry goes away only in a step of the
\* retention sweep.
C22_FilesOnlyGrow ==
  [][ /\ \A i \in DOMAIN disk : IsPrefix(disk[i], disk'[i])
      /\ \A d \in DOMAIN dirent :
           (dirent[d] # 0 /\ dirent'[d] # dirent[d])
           => (swPc = "scan" /\ dirent'[d] = 0) ]_vars
\* a day file that held a record was closed and opened again, and a later
\* record was appended behind the first, one of them through a wrapper
C22_Witness ==
  \E d \in DOMAIN dirent :
    /\ Len(FileOf(d)) = 2
    /\ FileOf(d)[1].rec < FileOf(d)[2].rec
    /\ \E k \in DOMAIN FileOf(d) : FileOf(d)[k].bound > 0
    /\ Cardinality({i \in DOMAIN fds : fds[i].day = d}) >= 2

\* C23: MultiHandler.Enabled(level) returns true exactly when some member's
\* Enabled(level) is true; a MultiHandler without members returns false at
\* every level.
C23_EnabledIffSomeMember ==
  mhEn.called
  => /\ mhEn.res <=> \E i \in DOMAIN mhHandlers :
                       MemberEnabled(mhHandlers[i], mhEn.level)
     /\ mhHandlers = <<>> => ~mhEn.res
\* Enabled returned true on account of the second of two members, the first
\* one not accepting the level
C23_Witness ==
  /\ mhEn.called /\ mhEn.res /\ Len(mhHandlers) = 2
  /\ ~MemberEnabled(mhHandlers[1], mhEn.level)
  /\ MemberEnabled(mhHandlers[2], mhEn.level)

\* C24: an ExecutorWithContext call that was given a nil context does not
\* panic; it gets as far as running the command (for a non-empty name) and
\* the command runs under a context whose timeout is DefaultTimeout.
C24_NilContextGetsDefault ==
  (xin.via = "ExecutorWithContext" /\ xin.ctx.kind = "nil")
  => /\ xpc # "panicked"
     /\ xpc = "running" => xctx.kind = "timeout" /\ xctx.timeout = DefaultTimeout

\* C25: every DailyFileHandler.Handle call that has taken the sink's lock
\* eventually returns with the lock released by it, whatever the rotation
\* step meets, a failing close of the previous day's file under a default
\* logger that is this logger included.
C25_HandleReturns ==
  \A t \in Threads :
    (op[t].kind = "Handle") ~> (op[t].kind # "Handle" /\ mu # t)

\* C26: when the open of the new day's file fails in a rotation inside
\* Handle, Handle returns the open error, no file holds the record, the sink
\* has neither file handle nor encoder, no handle it opened is still open,
\* the lock is free again, and the failing step leaves curDate as it was.
C26_OpenFailureLeavesSinkEmpty ==
  /\ []( (last.kind = "Handle" /\ last.res = "err_open")
         => /\ curFile = 0 /\ curInner = NilInner
            /\ \A i \in DOMAIN fds : ~fds[i].open
            /\ \A i \in DOMAIN disk : ~Holds(i, last.rec)
            /\ mu = 0 )
  /\ [][ \A t \in Threads :
           (pc[t] \in {"clear", "open"} /\ op[t].kind = "Handle" /\ pc'[t] = "idle")
           => /\ last'.kind = "Handle" /\ last'.res = "err_open"
              /\ last'.rec = op[t].rec
              /\ UNCHANGED <<curDate, fsVars>> ]_vars
\* a Handle for a day other than curDate closed the previous day's file,
\* which held a record, and failed to open the new one
C26_Witness ==
  /\ last.kind = "Handle" /\ last.res = "err_open"
  /\ curDate # 0 /\ curDate # last.day
  /\ FileOf(curDate) # <<>>
  /\ \E i \in DOMAIN fds : fds[i].day = curDate /\ fds[i].closes = 1

\* C27: a Handle for a record of the sink's current day, entered while a
\* file is open, goes from the rotation check straight to the write without
\* changing curDate, the file handle, the encoder or any file handle's
\* state (nothing is closed, nothing opened), and its write changes nothing
\* but the content of the current file, at most by appending the record.
C27_SameDayIsNoOp ==
  /\ [][ \A t \in Threads :
           ( /\ pc[t] = "rotate" /\ op[t].kind = "Handle"
             /\ op[t].day = curDate /\ curFile # 0 /\ fds[curFile].open
             /\ pc'[t] # pc[t] )
           => /\ pc'[t] = "write"
              /\ UNCHANGED <<hVars, fsVars>> ]_vars
  /\ [][ \A t \in Threads :
           (pc[t] = "write" /\ op[t].kind = "Handle" /\ pc'[t] # pc[t])
           => /\ UNCHANGED <<hVars, fds, dirent>>
              /\ curFile # 0 =>
                   \/ disk' = disk
                   \/ disk' = [disk EXCEPT ![fds[curFile].ino] =
                                 Append(@, [rec |-> op[t].rec, day |-> op[t].day,
                                            bound |-> 0])] ]_vars
\* two records of the day the sink was built on were written through the
\* one handle opened at construction
C27_Witness ==
  /\ last.kind = "Handle" /\ last.res = "ok" /\ last.day = curDate
  /\ Len(fds) = 1 /\ fds[1].open /\ fds[1].closes = 0
  /\ Len(FileOf(curDate)) = 2

\* C28: in the sequence of Write calls on the output stream the writes of
\* one record (color prefix, formatted bytes, reset) are consecutive: no
\* write of another record lies between two writes of the same record.
C28_RecordWritesContiguous ==
  \A i, k \in DOMAIN tout :
    (i < k /\ tout[i].rec = tout[k].rec)
    => \A j \in i .. k : tout[j].rec = tout[i].rec

\* C29: no step removes the directory entry of the file the sink has open:
\* whenever a day file's entry goes away, that file is not the one curFile
\* is open on.
C29_SweepSparesOpenFile ==
  [][ \A d \in DOMAIN dirent :
        (dirent[d] # 0 /\ dirent'[d] = 0)
        => ~(curFile # 0 /\ fds[curFile].open /\ fds[curFile].ino = dirent[d])
    ]_vars

\* C30: once GetLogger's own InitLogger call has run the Once's function
\* (GetLogger came before any InitLogger), there is never a file sink, a
\* sweep goroutine or an open file; the singleton, once built, is the
\* terminal-only logger and slog's default; every InitLogger call, whatever
\* output its configuration asks for, returns that logger with a nil error;
\* and the package-level Close returns nil and changes nothing.
C30_GetFirstFixesTerminalOnly ==
  /\ []( bodyVia = "Get"
         => /\ sinksBuilt = 0 /\ sweepers = 0 /\ ~onceFileHandler
            /\ curFile = 0 /\ fds = <<>>
            /\ initErr = "nil" /\ Len(loggers) <= 1
            /\ loggerOnce = "done" =>
                 /\ onceLogger = 1 /\ slogDefault = 1
                 /\ loggers = <<[multi |-> FALSE, handlers |-> <<"term">>]>>
            /\ results \subseteq {[logger |-> 1, err |-> "nil"]}
            /\ last.kind = "Init" =>
                 last.res = "nil" /\ last.logger = 1 /\ onceLogger = 1
            /\ last.kind = "Close" => last.res = "nil" /\ ~last.first )
  /\ [][ (bodyVia = "Get" /\ last'.kind = "Close")
         => UNCHANGED <<sinkVars, wrappers, pc, op, nRecs, initVars>> ]_vars
\* GetLogger ran the Once's function; a later InitLogger asking for file and
\* terminal output has just returned the terminal-only logger, no sink
\* having been built
C30_Witness ==
  /\ bodyVia = "Get" /\ loggerOnce = "done"
  /\ last.kind = "Init" /\ ~last.first /\ last.res = "nil" /\ last.logger = 1
  /\ askedOutput = 3
  /\ loggers[1].handlers = <<"term">> /\ sinksBuilt = 0

\* the collectors whose failure counts
FatalModules == {"system", "memory", "disk", "network"}

\* C31: Collector.Collect returns only when every collector goroutine it
\* started has finished; it returns an error exactly when a requested
\* collector among system, memory, disk and network failed, so never when
\* only the GPU collector failed; and a call that returns an error has
\* made no Save on the cache and has left lastData as it found it.
C31_CollectContract ==
  cret.returned =>
    /\ \A m \in AllModules : gst[m] # "run"
    /\ \A m \in AllModules : m \in moduleSet <=> gst[m] = "done"
    /\ cret.err # NilErr <=> (moduleSet \cap FatalModules \cap cfailed # {})
    /\ cfailed \subseteq {"gpu"} => cret.err = NilErr
    /\ cret.err # NilErr =>
         /\ lastData = centry.lastData
         /\ cacheSaved = centry.cacheSaved
         /\ nSaves = 0

\* a call with every collector requested fails on the disk collector, the
\* GPU collector having failed too, after an earlier call stored its data
C31_Witness ==
  /\ cret.returned /\ cret.err # NilErr
  /\ moduleSet = AllModules
  /\ {"gpu", "disk"} \subseteq cfailed
  /\ centry.lastData # NilInfo /\ lastData = centry.lastData

\* the directory entries collectNetInterfaces is to report
Reported ==
  {i \in DOMAIN sysNet.entries :
     /\ sysNet.entries[i].kind = "dir"
     /\ ~(sysNet.entries[i].name[1] = "l" /\ sysNet.entries[i].name[2] = "o")}

\* C32: collectNetInterfaces returns exactly one entry for each entry of
\* /sys/class/net that is a directory and whose name does not start with
\* "lo", carrying that name as DeviceName, and no other entry; no entry has
\* an empty DeviceName.
C32_OneEntryPerInterface ==
  (nret.returned /\ nret.err = NilErr) =>
    /\ Len(nret.list) = Cardinality(Reported)
    /\ {nret.list[i].DeviceName : i \in DOMAIN nret.list} =
         {sysNet.entries[i].name : i \in Reported}
    /\ \A i \in DOMAIN nret.list : nret.list[i].DeviceName # <<>>

====
